---------------------------- MODULE Spec2Model ----------------------------
(***************************************************************************)
(* State-machine model of the synchronization core of atfdark/SYNC:        *)
(* BufferManager (per-device ring buffers), MasterClock, DeviceClock,      *)
(* DriftCorrection, AudioSyncEngine, LatencyCompensation and the           *)
(* WebBluetoothAudioSync coordinator.                                      *)
(*                                                                         *)
(* JavaScript numbers are modelled as exact values: times and sample       *)
(* counts are integers, offsets and adjustments are rationals <<n, d>>     *)
(* in lowest terms with d > 0.  Math.round and the % operator are          *)
(* modelled with their JavaScript meaning (round half up, remainder with   *)
(* the sign of the dividend).                                              *)
(***************************************************************************)
EXTENDS Integers, Sequences, FiniteSets, Bags, TLC

VARIABLES
    now,             \* performance.now(), the monotonic wall clock (ms)
    bufferManager,   \* the BufferManager instance
    readResult,      \* outcome of the last BufferManager call
    masterClock,     \* the MasterClock instance
    jsTimers,        \* pending setTimeout/setInterval timers of the clock
    tickLoop,        \* pending links of the clock's tick loop(s)
    invoked,         \* per scheduled callback: how often it has been called
    preStop,         \* callbacks that were scheduled before a stop()
    deviceClock,     \* the DeviceClock objects, by device id
    pending,         \* performSyncMeasurement calls awaiting their ping
    lastCall,        \* the last DeviceClock/DriftCorrection call and result
    driftCorrection, \* the DriftCorrection instance
    correctionLoop,  \* pending links of the correction loop(s)
    coordinator,     \* the WebBluetoothAudioSync instance
    audioSyncEngine, \* the AudioSyncEngine instance
    syncLoop,        \* pending links of the engine's sync loop(s)
    latencyCompensation, \* the LatencyCompensation instance
    monitoring,      \* measureLatency calls in flight, monitoring timers
    series,          \* the current run of updateOffset calls with one candidate
    pauses           \* the paused intervals of the master clock since its start

bufferVars == <<bufferManager, readResult>>

clockVars == <<masterClock, jsTimers, tickLoop, invoked, preStop>>

deviceVars == <<deviceClock, pending, lastCall>>

driftVars == <<driftCorrection, correctionLoop>>

systemVars == <<coordinator, audioSyncEngine, syncLoop>>

latencyVars == <<latencyCompensation, monitoring>>

vars == <<now, bufferVars, clockVars, deviceVars, driftVars, systemVars,
          latencyVars, series, pauses>>

AllButNow == <<bufferVars, clockVars, deviceVars, driftVars, systemVars,
               latencyVars, series, pauses>>

\* what the actions of one component leave alone
BufFrame == <<now, clockVars, deviceVars, driftVars, systemVars,
              latencyVars, series, pauses>>

ClkFrame == <<now, bufferVars, deviceVars, driftVars, systemVars,
              latencyVars, series, pauses>>

DevFrame == <<now, bufferVars, clockVars, driftVars, systemVars,
              latencyVars, series, pauses>>

\* the frame of a DeviceClock call whose run of equal candidates is followed
CnvFrame == <<now, bufferVars, clockVars, driftVars, systemVars,
              latencyVars, pauses>>

\* the frame of a MasterClock call whose paused intervals are followed
RunFrame == <<now, bufferVars, deviceVars, driftVars, systemVars,
              latencyVars, series>>

DrfFrame == <<now, bufferVars, clockVars, systemVars, latencyVars, series, pauses>>

LatFrame == <<bufferVars, clockVars, deviceVars, driftVars, systemVars,
              series, pauses>>

----------------------------------------------------------------------------
(* Bounds of the model *)

Devices == {"d1", "d2"}

\* this.config.maxDevices = options.maxDevices || 8
maxDevices == 8

\* devices that may connect to the Coordinator, one more than maxDevices
AdmissionDevices == {"d1", "d2", "d3", "d4", "d5", "d6", "d7", "d8", "d9"}

DisconnectingDevices == {"d1", "d2"}

ClockDevices == {"d1"}   \* devices of the DeviceClock specification

BufferSize == 3      \* options.bufferSize given to addDeviceBuffer
SampleRate == 1000   \* options.sampleRate given to addDeviceBuffer
MaxWrite == 5        \* longest audioData of one write
MaxTime == 1         \* largest timestamp handed to write/read
MaxDrift == 20       \* cap on |accumulated buffer drift|
MaxBufferOps == 3    \* cap on the operations counted in bufferStats

DriftAmounts == {-10, -5, 5, 10}

NULL == -1           \* JavaScript null for a numeric field

TickInterval == 10   \* MasterClock tickInterval
Lookahead == 100     \* MasterClock lookahead
TimeSteps == {5}     \* amounts by which the wall clock advances
MaxNow == 11         \* the wall clock stops advancing here
MaxLoops == 2        \* cap on simultaneously pending tick-loop links
MaxTicks == 2        \* cap on tickCount
MaxTimers == 2       \* cap on timers created by scheduleCallback/Recurring
MaxCalls == 1        \* cap on counted invocations of one callback
SyncTolerance == 1        \* DeviceClock syncTolerance option
MeasurementTimeout == 100 \* DeviceClock measurementTimeout default
MaxLatencySamples == 10   \* DeviceClock maxLatencySamples
MaxReadSyncs == 3         \* updateOffset calls of one clock before a reading
RestartedTimes == {0, 10, 20}  \* master times carried by those calls
MaxRepeats == 7           \* updateOffset calls of one clock in a run
RepeatedSkews == {0, 3}   \* device-minus-master readings of such a run
MaxSync == 2         \* cap on a DeviceClock's syncCount
MaxPending == 2      \* cap on measurements in flight
MaxCorrection == 2        \* DriftCorrection maxCorrection default
CorrectionInterval == 10  \* options.correctionInterval of DriftCorrection
MaxHistorySize == 100     \* DriftCorrection maxHistorySize
MaxCorrections == 2  \* cap on correction counts
MaxCorrectionLoops == 1   \* cap on pending correction-loop links
CorrectionTimes == {20}   \* master times handed to performCorrection
SyncTimes == {10}         \* master times of the measurements that cause drift
SyncLoopInterval == 16    \* delay of the AudioSyncEngine sync loop
AudioDuration == 10       \* duration (ms) of the audio of a sync plan
InitialDelays == {10}     \* initialDelay of _calculateDeviceAdjustments
SysInstants == {121, 141}  \* wall-clock instants of the coordinator runs
MaxSyncLoops == 1         \* cap on pending sync-loop links
MaxSessions == 1          \* cap on activeSyncSessions
MaxBatchSyncs == 2        \* cap on totalSyncOperations of the engine on its own
MaxAccuracyDigits == 100  \* cap on the denominator of averageSyncAccuracy
PlaybackInstants == {11, 21}  \* wall-clock instants of the engine on its own
MaxSyncOps == 1           \* cap on syncStats.totalSyncOperations
MeasurementInterval == 5000   \* options.measurementInterval || 5000
Timeout == 1000           \* options.timeout || 1000
MaxLatency == 100         \* options.maxLatency || 100
ProbeSpacing == 100       \* TimeUtils.wait(100) between two probes
MaxLatencyHistory == 100  \* history.length > 100
SampleSize == 2           \* options.sampleSize of LatencyCompensation
MaxBatches == 2           \* cap on measureLatency calls
MaxStarts == 1            \* cap on startLatencyMonitoring calls
LatencyInstants == {5, 501, 507, 7501}   \* instants of the latency runs
\* what no measureLatency call has returned yet
NoLatencyResult == [id |-> 0, device |-> "", attempts |-> 0,
                    measurements |-> <<>>, threw |-> FALSE, result |-> NULL]
PingSkews == {3}          \* device-minus-master readings of answered pings
DriftSkews == {30}        \* device-minus-master readings that cause drift
MaxCorrectionChoices == {<<1, 10>>, <<2, 1>>}  \* maxCorrection settings
MeasurementTimeouts == {5, 100}
MasterTimes == {10, 20}
Skews == {0, 3, 30}
RoundTrips == {0, 4}
SubscriberIds == {"s1"}
TargetTimes == {10}

----------------------------------------------------------------------------
(* JavaScript arithmetic *)

Abs(x) == IF x < 0 THEN -x ELSE x

Min(a, b) == IF a <= b THEN a ELSE b

Max(a, b) == IF a >= b THEN a ELSE b

\* a % n in JavaScript: the remainder takes the sign of the dividend
JsMod(a, n) == IF a >= 0 THEN a % n ELSE -((-a) % n)

\* Math.round(n / d) for d > 0: floor(x + 0.5)
JsRound(n, d) == (2 * n + d) \div (2 * d)

\* x is truthy as a JavaScript number-or-null
Truthy(x) == x # NULL /\ x # 0

\* TimeUtils.msToSamples
msToSamples(ms, sampleRate) == JsRound(ms * sampleRate, 1000)

\* Fractional numbers are pairs <<n, d>>, d > 0, in lowest terms
RECURSIVE GCD(_, _)
GCD(a, b) == IF b = 0 THEN a ELSE GCD(b, a % b)

Rat(n, d) ==
    LET g == GCD(Abs(n), Abs(d))
        sgn == IF d < 0 THEN -1 ELSE 1
    IN  <<sgn * (n \div g), sgn * (d \div g)>>

R(i) == <<i, 1>>

RAdd(a, b) ==
    LET g == GCD(a[2], b[2])
    IN  Rat(a[1] * (b[2] \div g) + b[1] * (a[2] \div g),
            a[2] * (b[2] \div g))

RNeg(a) == <<-a[1], a[2]>>

RSub(a, b) == RAdd(a, RNeg(b))

RMul(a, b) ==
    LET g1 == GCD(Abs(a[1]), b[2])
        g2 == GCD(Abs(b[1]), a[2])
    IN  IF a[1] = 0 \/ b[1] = 0 THEN <<0, 1>>
        ELSE Rat((a[1] \div g1) * (b[1] \div g2),
                 (a[2] \div g2) * (b[2] \div g1))

\* a / b for b # 0
RDiv(a, b) == RMul(a, Rat(b[2], b[1]))

RAbs(a) == <<Abs(a[1]), a[2]>>

RLess(a, b) == RSub(a, b)[1] < 0

RLeq(a, b) == RSub(a, b)[1] <= 0

RMin(a, b) == IF RLeq(a, b) THEN a ELSE b

RMax(a, b) == IF RLeq(a, b) THEN b ELSE a

\* Math.round of a fraction
RRound(a) == JsRound(a[1], a[2])

----------------------------------------------------------------------------
(* BufferManager *)

\* slot i of a Float32Array is element i + 1 of the sequence
Slot(buffer, i) == buffer[i + 1]

\* TypedArray.prototype.subarray(begin, end): negative indices count from
\* the end, both are clamped to [0, length]
RelIndex(i, len) == IF i < 0 THEN Max(len + i, 0) ELSE Min(i, len)

\* subarray taken one slot too far
SubarrayShifted(buffer, begin, end) ==
    LET b == RelIndex(begin, Len(buffer))
        e == RelIndex(end, Len(buffer))
    IN  IF e <= b THEN <<>> ELSE SubSeq(buffer, b + 2, Min(e + 1, Len(buffer)))

Subarray(buffer, begin, end) ==
    LET b == RelIndex(begin, Len(buffer))
        e == RelIndex(end, Len(buffer))
    IN  IF e <= b THEN <<>> ELSE SubSeq(buffer, b + 1, e)

\* TypedArray.prototype.set(source, offset) throws a RangeError when the
\* source does not fit
SetThrows(target, source, offset) == offset + Len(source) > Len(target)

SetInto(target, source, offset) ==
    [i \in 1..Len(target) |->
        IF i > offset /\ i <= offset + Len(source)
        THEN source[i - offset] ELSE target[i]]

Zeros(n) == [i \in 1..n |-> 0]

HasBuffer(d) == d \in DOMAIN bufferManager.deviceBuffers

\* this.writePositions.get(deviceId) || 0
WritePos(d) == IF d \in DOMAIN bufferManager.writePositions
               THEN bufferManager.writePositions[d] ELSE 0

ReadPos(d) == IF d \in DOMAIN bufferManager.readPositions
              THEN bufferManager.readPositions[d] ELSE 0

BufferDrift(d) == IF d \in DOMAIN bufferManager.bufferDrift
                  THEN bufferManager.bufferDrift[d] ELSE 0

Capacity(d) == Len(bufferManager.deviceBuffers[d].buffer)

_calculateAvailableSamples(d) ==
    IF ~HasBuffer(d) THEN 0
    ELSE IF WritePos(d) >= ReadPos(d)
         THEN WritePos(d) - ReadPos(d)
         ELSE Capacity(d) - ReadPos(d) + WritePos(d)

\* utilization as the numerator over Capacity(d)
_calculateBufferUtilization(d) ==
    IF ~HasBuffer(d) THEN 0
    ELSE IF WritePos(d) >= ReadPos(d)
         THEN WritePos(d) - ReadPos(d)
         ELSE Capacity(d) - ReadPos(d) + WritePos(d)

\* utilization > 0.95
_detectBufferOverflow(d) ==
    HasBuffer(d) /\ 100 * _calculateBufferUtilization(d) > 95 * Capacity(d)

\* the skip measured from the last read instead of the last write
_calculateSamplesToSkipSinceRead(d, timestamp) ==
    IF ~HasBuffer(d) THEN 0
    ELSE LET metadata == bufferManager.deviceBuffers[d]
             timeDiff == timestamp - (IF Truthy(metadata.lastReadTime)
                                      THEN metadata.lastReadTime
                                      ELSE 0)
         IN  Max(0, msToSamples(timeDiff, metadata.sampleRate))

_calculateSamplesToSkip(d, timestamp) ==
    IF ~HasBuffer(d) THEN 0
    ELSE LET metadata == bufferManager.deviceBuffers[d]
             timeDiff == timestamp - (IF Truthy(metadata.lastWriteTime)
                                      THEN metadata.lastWriteTime
                                      ELSE timestamp)
         IN  Max(0, msToSamples(timeDiff, metadata.sampleRate))

\* the drift applied to the read position without the 10% smoothing
_getDriftAdjustmentUnsmoothed(d) == BufferDrift(d)

\* Math.round(0.1 * drift)
_getDriftAdjustment(d) == JsRound(BufferDrift(d), 10)

\* _readBufferData: [threw, data]
_readBufferData(buffer, startPos, sampleCount) ==
    LET result == Zeros(sampleCount)
        availableSamples == Len(buffer) - startPos
    IN  IF sampleCount <= availableSamples
        THEN LET src == Subarray(buffer, startPos, startPos + sampleCount)
             IN  IF SetThrows(result, src, 0)
                 THEN [threw |-> TRUE, data |-> <<>>]
                 ELSE [threw |-> FALSE, data |-> SetInto(result, src, 0)]
        ELSE LET tail == Subarray(buffer, startPos, Len(buffer))
                 remainingSamples == sampleCount - availableSamples
                 head == Subarray(buffer, 0, remainingSamples)
             IN  IF \/ SetThrows(result, tail, 0)
                    \/ availableSamples < 0
                    \/ SetThrows(result, head, availableSamples)
                 THEN [threw |-> TRUE, data |-> <<>>]
                 ELSE [threw |-> FALSE,
                       data |-> SetInto(SetInto(result, tail, 0),
                                        head, availableSamples)]

NoResult == [op |-> "none", device |-> "", threw |-> FALSE, data |-> <<>>,
             samples |-> 0, readPosition |-> 0, overflow |-> FALSE]

InitBuffer ==
    /\ bufferManager = [deviceBuffers |-> <<>>,
                        writePositions |-> <<>>,
                        readPositions |-> <<>>,
                        bufferDrift |-> <<>>,
                        bufferStats |-> [totalReadOperations |-> 0,
                                         totalWriteOperations |-> 0,
                                         totalDriftCorrections |-> 0]]
    /\ readResult = NoResult

\* m with key d bound to v
Put(m, d, v) == [k \in DOMAIN m \cup {d} |-> IF k = d THEN v ELSE m[k]]

\* m without key d
Del(m, d) == [k \in DOMAIN m \ {d} |-> m[k]]

addDeviceBuffer(d) ==
    /\ ~HasBuffer(d)
    /\ bufferManager' =
         [bufferManager EXCEPT
            !.deviceBuffers = Put(@, d, [buffer |-> Zeros(BufferSize),
                                         sampleRate |-> SampleRate,
                                         lastWriteTime |-> NULL,
                                         lastReadTime |-> NULL,
                                         totalSamples |-> 0]),
            !.writePositions = Put(@, d, 0),
            !.readPositions = Put(@, d, 0),
            !.bufferDrift = Put(@, d, 0)]
    /\ readResult' = [NoResult EXCEPT !.op = "add", !.device = d]

removeDeviceBuffer(d) ==
    /\ HasBuffer(d)
    /\ bufferManager' =
         [bufferManager EXCEPT
            !.deviceBuffers = Del(@, d),
            !.writePositions = Del(@, d),
            !.readPositions = Del(@, d),
            !.bufferDrift = Del(@, d)]
    /\ readResult' = [NoResult EXCEPT !.op = "remove", !.device = d]

\* the samples of one write: the next n samples of the device's stream,
\* each sample carrying its position in the stream
NextSamples(d, n) ==
    LET base == IF HasBuffer(d)
                THEN bufferManager.deviceBuffers[d].totalSamples ELSE 0
    IN  [i \in 1..n |-> base + i]

\* operations counted in bufferStats so far
BufferOps ==
    bufferManager.bufferStats.totalReadOperations
    + bufferManager.bufferStats.totalWriteOperations
    + bufferManager.bufferStats.totalDriftCorrections

writeAudioData(d, floatData, timestamp) ==
    /\ BufferOps < MaxBufferOps
    /\ IF ~HasBuffer(d)
       THEN /\ readResult' = [NoResult EXCEPT !.op = "write", !.device = d,
                                              !.threw = TRUE]
            /\ UNCHANGED bufferManager
       ELSE LET entry == bufferManager.deviceBuffers[d]
                buffer == entry.buffer
                writePos == WritePos(d)
                samplesToWrite == Len(floatData)
                availableSpace == Len(buffer) - writePos
                writeSize == Min(samplesToWrite, availableSpace)
                first == SubSeq(floatData, 1, writeSize)
                buffer1 == SetInto(buffer, first, writePos)
                rest == SubSeq(floatData, writeSize + 1, samplesToWrite)
                wraps == samplesToWrite > writeSize
                throws == wraps /\ SetThrows(buffer1, rest, 0)
                buffer2 == IF wraps /\ ~throws
                           THEN SetInto(buffer1, rest, 0) ELSE buffer1
                newWritePos == (writePos + samplesToWrite) % Len(buffer)
            IN  IF throws
                THEN \* the first copy has happened, then buffer.set throws
                     /\ bufferManager' =
                          [bufferManager EXCEPT
                             !.deviceBuffers[d].buffer = buffer1]
                     /\ readResult' = [NoResult EXCEPT
                                         !.op = "write", !.device = d,
                                         !.threw = TRUE]
                ELSE /\ bufferManager' =
                          [bufferManager EXCEPT
                             !.deviceBuffers[d].buffer = buffer2,
                             !.deviceBuffers[d].lastWriteTime = timestamp,
                             !.deviceBuffers[d].totalSamples =
                                 @ + samplesToWrite,
                             !.writePositions = Put(@, d, newWritePos),
                             !.bufferStats.totalWriteOperations = @ + 1]
                     /\ readResult' =
                          [NoResult EXCEPT
                             !.op = "write", !.device = d,
                             !.overflow = _detectBufferOverflow(d)']

readSynchronizedData(d, timestamp, sampleCount) ==
    /\ BufferOps < MaxBufferOps
    /\ IF ~HasBuffer(d)
       THEN /\ readResult' = [NoResult EXCEPT !.op = "read", !.device = d,
                                              !.threw = TRUE]
            /\ UNCHANGED bufferManager
       ELSE LET buffer == bufferManager.deviceBuffers[d].buffer
                readPos == ReadPos(d)
                samplesToSkip == _calculateSamplesToSkip(d, timestamp)
                targetReadPos == JsMod(readPos + samplesToSkip, Len(buffer))
                driftAdjustment == _getDriftAdjustment(d)
                adjustedReadPos == JsMod(targetReadPos + driftAdjustment,
                                         Len(buffer))
                availableSamples == _calculateAvailableSamples(d)
                actualSampleCount ==
                    IF sampleCount > 0
                    THEN Min(sampleCount, availableSamples)
                    ELSE availableSamples
                read == _readBufferData(buffer, adjustedReadPos,
                                        actualSampleCount)
            IN  IF read.threw
                THEN /\ readResult' = [NoResult EXCEPT
                                         !.op = "read", !.device = d,
                                         !.threw = TRUE]
                     /\ UNCHANGED bufferManager
                ELSE /\ bufferManager' =
                          [bufferManager EXCEPT
                             !.readPositions =
                                 Put(@, d, JsMod(adjustedReadPos
                                                 + actualSampleCount,
                                                 Len(buffer))),
                             !.deviceBuffers[d].lastReadTime = timestamp,
                             !.bufferStats.totalReadOperations = @ + 1]
                     /\ readResult' =
                          [NoResult EXCEPT
                             !.op = "read", !.device = d,
                             !.data = read.data,
                             !.samples = actualSampleCount,
                             !.readPosition = adjustedReadPos]

applyDriftCorrectionShared(d, driftAmount) ==
    /\ BufferOps < MaxBufferOps
    /\ IF ~HasBuffer(d)
       THEN /\ readResult' = [NoResult EXCEPT !.op = "drift", !.device = d]
            /\ UNCHANGED bufferManager
       ELSE /\ Abs(BufferDrift(d) + driftAmount) <= MaxDrift
            /\ bufferManager' =
                 [bufferManager EXCEPT
                    !.bufferDrift =
                        [x \in DOMAIN @ |-> BufferDrift(d) + driftAmount],
                    !.bufferStats.totalDriftCorrections = @ + 1]
            /\ readResult' = [NoResult EXCEPT !.op = "drift", !.device = d]

applyDriftCorrection(d, driftAmount) ==
    /\ BufferOps < MaxBufferOps
    /\ IF ~HasBuffer(d)
       THEN /\ readResult' = [NoResult EXCEPT !.op = "drift", !.device = d]
            /\ UNCHANGED bufferManager
       ELSE /\ Abs(BufferDrift(d) + driftAmount) <= MaxDrift
            /\ bufferManager' =
                 [bufferManager EXCEPT
                    !.bufferDrift = Put(@, d, BufferDrift(d) + driftAmount),
                    !.bufferStats.totalDriftCorrections = @ + 1]
            /\ readResult' = [NoResult EXCEPT !.op = "drift", !.device = d]

clearDeviceBuffer(d) ==
    /\ IF ~HasBuffer(d)
       THEN \* if (!bufferEntry) return;
            UNCHANGED bufferManager
       ELSE bufferManager' =
              [bufferManager EXCEPT
                 !.deviceBuffers[d].buffer = Zeros(Len(@)),
                 !.writePositions = Put(@, d, 0),
                 !.readPositions = Put(@, d, 0),
                 !.bufferDrift = Put(@, d, 0)]
    /\ readResult' = [NoResult EXCEPT !.op = "clear", !.device = d]

BufAdd ==
    \E d \in Devices : addDeviceBuffer(d) /\ UNCHANGED BufFrame

BufRemove ==
    \E d \in Devices : removeDeviceBuffer(d) /\ UNCHANGED BufFrame

BufWrite ==
    \E d \in Devices, n \in 0..MaxWrite, t \in 0..MaxTime :
        writeAudioData(d, NextSamples(d, n), t)
        /\ UNCHANGED BufFrame

BufRead ==
    \E d \in Devices, t \in 0..MaxTime, c \in 0..BufferSize :
        readSynchronizedData(d, t, c) /\ UNCHANGED BufFrame

BufDrift ==
    \E d \in Devices, a \in DriftAmounts :
        applyDriftCorrection(d, a) /\ UNCHANGED BufFrame

BufClear ==
    \E d \in Devices : clearDeviceBuffer(d) /\ UNCHANGED BufFrame

NextBuffer ==
    \/ BufAdd
    \/ BufRemove
    \/ BufWrite
    \/ BufRead
    \/ BufDrift
    \/ BufClear

----------------------------------------------------------------------------
(* MasterClock *)

InitClock ==
    /\ masterClock = [startTime |-> NULL,
                      paused |-> FALSE,
                      pauseTime |-> NULL,
                      totalPausedTime |-> 0,
                      tickInterval |-> TickInterval,
                      lookahead |-> Lookahead,
                      subscribers |-> <<>>,
                      timers |-> {},
                      isRunning |-> FALSE,
                      tickCount |-> 0,
                      lastTickTime |-> NULL]
    /\ jsTimers = {}
    /\ tickLoop = [raf |-> 0, timeouts |-> EmptyBag]
    /\ invoked = <<>>
    /\ preStop = {}

\* getCurrentTime() of clock state mc read at wall-clock time t
CurrentTimeOf(mc, t) ==
    IF ~mc.isRunning THEN 0
    ELSE LET elapsed == t - mc.startTime
         IN  Max(0, IF mc.paused /\ Truthy(mc.pauseTime)
                    THEN elapsed
                         - ((mc.pauseTime - mc.startTime)
                            - mc.totalPausedTime)
                    ELSE elapsed - mc.totalPausedTime)

getCurrentTime == CurrentTimeOf(masterClock, now)

getSyncTime == getCurrentTime + masterClock.lookahead

\* number of pending links of tick loops
TickLinks == tickLoop.raf + BagCardinality(tickLoop.timeouts)

\* _startTicking: requestAnimationFrame(tick)
_startTicking(loop) == [loop EXCEPT !.raf = @ + 1]

\* handles of the browser timers that clearTimeout/clearInterval of the
\* members of this.timers cancel: a member that is a timer-id string
\* matches no browser timer
ClearedBy(timerSet) == {x.n : x \in {y \in timerSet : y.tag = "handle"}}

\* start() applied to clock state mc
StartOf(mc) ==
    [mc EXCEPT !.startTime = now, !.isRunning = TRUE, !.paused = FALSE,
               !.totalPausedTime = 0]

\* stop() applied to clock state mc (with _stopTicking)
StopOf(mc) ==
    [mc EXCEPT !.timers = {}, !.isRunning = FALSE, !.startTime = NULL,
               !.paused = FALSE]

\* the browser timers left after _stopTicking
_stopTicking(browserTimers, mc) ==
    {tm \in browserTimers : tm.h \notin ClearedBy(mc.timers)}

AllHandles == DOMAIN invoked

\* a start() without the early return of a running clock
startAgain ==
    /\ TickLinks < MaxLoops
    /\ masterClock' = StartOf(masterClock)
    /\ tickLoop' = _startTicking(tickLoop)
    /\ UNCHANGED <<jsTimers, invoked, preStop>>

start ==
    /\ IF masterClock.isRunning
       THEN UNCHANGED <<masterClock, tickLoop>>
       ELSE /\ TickLinks < MaxLoops
            /\ masterClock' = StartOf(masterClock)
            /\ tickLoop' = _startTicking(tickLoop)
    /\ UNCHANGED <<jsTimers, invoked, preStop>>

stop ==
    IF ~masterClock.isRunning
    THEN UNCHANGED clockVars
    ELSE /\ jsTimers' = _stopTicking(jsTimers, masterClock)
         /\ masterClock' = StopOf(masterClock)
         /\ preStop' = AllHandles
         /\ UNCHANGED <<tickLoop, invoked>>

pause ==
    /\ IF ~masterClock.isRunning \/ masterClock.paused
       THEN UNCHANGED masterClock
       ELSE masterClock' = [masterClock EXCEPT !.paused = TRUE,
                                               !.pauseTime = now]
    /\ UNCHANGED <<jsTimers, tickLoop, invoked, preStop>>

\* a resume() that keeps the duration of the last pause only
resumeLastPauseOnly ==
    /\ IF ~masterClock.isRunning \/ ~masterClock.paused
       THEN UNCHANGED masterClock
       ELSE masterClock' =
              [masterClock EXCEPT
                 !.totalPausedTime = now - masterClock.pauseTime,
                 !.paused = FALSE,
                 !.pauseTime = NULL]
    /\ UNCHANGED <<jsTimers, tickLoop, invoked, preStop>>

resume ==
    /\ IF ~masterClock.isRunning \/ ~masterClock.paused
       THEN UNCHANGED masterClock
       ELSE masterClock' =
              [masterClock EXCEPT
                 !.totalPausedTime = @ + (now - masterClock.pauseTime),
                 !.paused = FALSE,
                 !.pauseTime = NULL]
    /\ UNCHANGED <<jsTimers, tickLoop, invoked, preStop>>

subscribe(id, interval) ==
    /\ masterClock' =
         [masterClock EXCEPT
            !.subscribers = Put(@, id, [interval |-> interval,
                                        lastUpdate |-> 0,
                                        calls |-> 0])]
    /\ UNCHANGED <<jsTimers, tickLoop, invoked, preStop>>

unsubscribe(id) ==
    /\ id \in DOMAIN masterClock.subscribers
    /\ masterClock' = [masterClock EXCEPT !.subscribers = Del(@, id)]
    /\ UNCHANGED <<jsTimers, tickLoop, invoked, preStop>>

\* the handle the browser gives to the next timer
NewHandle == Cardinality(AllHandles) + 1

scheduleCallback(targetTime) ==
    /\ NewHandle <= MaxTimers
    /\ LET delay == Max(0, targetTime - getCurrentTime)
       IN  jsTimers' = jsTimers \cup
               {[h |-> NewHandle, kind |-> "timeout", due |-> now + delay,
                 interval |-> 0]}
    \* this.timers.add(timerId): the generated string, not the handle
    /\ masterClock' = [masterClock EXCEPT
                         !.timers = @ \cup {[tag |-> "id", n |-> NewHandle]}]
    /\ invoked' = Put(invoked, NewHandle, 0)
    /\ UNCHANGED <<tickLoop, preStop>>

scheduleRecurring(interval) ==
    /\ NewHandle <= MaxTimers
    /\ jsTimers' = jsTimers \cup
           {[h |-> NewHandle, kind |-> "interval", due |-> now + interval,
             interval |-> interval]}
    \* this.timers.add(timer): the handle
    /\ masterClock' = [masterClock EXCEPT
                         !.timers = @ \cup {[tag |-> "handle",
                                             n |-> NewHandle]}]
    /\ invoked' = Put(invoked, NewHandle, 0)
    /\ UNCHANGED <<tickLoop, preStop>>

cancelTimer(x) ==
    /\ jsTimers' = {tm \in jsTimers : tm.h \notin ClearedBy({x})}
    /\ masterClock' = [masterClock EXCEPT !.timers = @ \ {x}]
    /\ UNCHANGED <<tickLoop, invoked, preStop>>

\* the setTimeout callback of scheduleCallback runs
TimeoutFires(tm) ==
    /\ tm.kind = "timeout"
    /\ now >= tm.due
    /\ jsTimers' = jsTimers \ {tm}
    /\ invoked' = [invoked EXCEPT ![tm.h] = @ + 1]
    /\ masterClock' = [masterClock EXCEPT
                         !.timers = @ \ {[tag |-> "id", n |-> tm.h]}]
    /\ UNCHANGED <<tickLoop, preStop>>

\* the setInterval callback of scheduleRecurring runs
IntervalFires(tm) ==
    /\ tm.kind = "interval"
    /\ now >= tm.due
    /\ invoked[tm.h] < MaxCalls
    /\ jsTimers' = (jsTimers \ {tm}) \cup {[tm EXCEPT !.due = @ + tm.interval]}
    /\ invoked' = IF ~masterClock.paused
                  THEN [invoked EXCEPT ![tm.h] = @ + 1]
                  ELSE invoked
    /\ UNCHANGED <<masterClock, tickLoop, preStop>>

\* _processTick applied to clock state mc
_processTick(mc) ==
    LET currentTime == CurrentTimeOf(mc, now)
        due(sub) == sub.interval = NULL \/ sub.interval = 0
                    \/ currentTime - sub.lastUpdate >= sub.interval
    IN  [mc EXCEPT
           !.lastTickTime = currentTime,
           !.subscribers =
               [id \in DOMAIN @ |->
                   IF due(@[id])
                   THEN [@[id] EXCEPT !.lastUpdate = currentTime,
                                      !.calls = Min(@ + 1, MaxCalls)]
                   ELSE @[id]],
           !.tickCount = @ + 1]

\* the tick closure runs from requestAnimationFrame
TickRuns ==
    /\ tickLoop.raf > 0
    /\ IF ~masterClock.isRunning
       THEN /\ tickLoop' = [tickLoop EXCEPT !.raf = @ - 1]
            /\ UNCHANGED masterClock
       ELSE /\ masterClock.tickCount < MaxTicks
            /\ masterClock' = IF ~masterClock.paused
                              THEN _processTick(masterClock)
                              ELSE masterClock
            /\ tickLoop' =
                 [tickLoop EXCEPT
                    !.raf = @ - 1,
                    !.timeouts =
                        @ (+) SetToBag({now + masterClock.tickInterval})]
    /\ UNCHANGED <<jsTimers, invoked, preStop>>

\* the setTimeout callback of the tick loop runs
TickTimeoutFires(due) ==
    /\ BagIn(due, tickLoop.timeouts)
    /\ now >= due
    /\ tickLoop' =
         [tickLoop EXCEPT
            !.timeouts = @ (-) SetToBag({due}),
            !.raf = IF masterClock.isRunning THEN @ + 1 ELSE @]
    /\ UNCHANGED <<masterClock, jsTimers, invoked, preStop>>

\* setOptions: stop, assign, start again when the clock was running
setOptions(tickInterval) ==
    LET wasRunning == masterClock.isRunning
        stopped == IF wasRunning THEN StopOf(masterClock) ELSE masterClock
        configured == [stopped EXCEPT !.tickInterval = tickInterval]
    IN  /\ wasRunning => TickLinks < MaxLoops
        /\ masterClock' = IF wasRunning THEN StartOf(configured)
                          ELSE configured
        /\ jsTimers' = IF wasRunning
                       THEN _stopTicking(jsTimers, masterClock)
                       ELSE jsTimers
        /\ tickLoop' = IF wasRunning THEN _startTicking(tickLoop)
                       ELSE tickLoop
        /\ preStop' = IF wasRunning THEN AllHandles ELSE preStop
        /\ UNCHANGED invoked

\* wall-clock time passes
Advance == \E dt \in TimeSteps : now + dt <= MaxNow /\ now' = now + dt

ClkAdvance ==
    Advance /\ UNCHANGED AllButNow

\* the wall-clock time of the start that took effect, the total duration
\* of the paused intervals completed since, and the beginning of the
\* interval that is open
NoPauses == [origin |-> NULL, completed |-> 0, since |-> NULL]

\* the intervals after a call that took the clock from state mc to mc2
Tracked(p, mc, mc2) ==
    IF ~mc2.isRunning THEN NoPauses
    ELSE IF ~mc.isRunning THEN [NoPauses EXCEPT !.origin = now]
    ELSE IF ~mc.paused /\ mc2.paused THEN [p EXCEPT !.since = now]
    ELSE IF mc.paused /\ ~mc2.paused
         THEN [p EXCEPT !.completed = @ + (now - p.since),
                        !.since = NULL]
         ELSE p

ClkStart ==
    /\ start
    /\ pauses' = Tracked(pauses, masterClock, masterClock')
    /\ UNCHANGED RunFrame

ClkStop ==
    /\ stop
    /\ pauses' = Tracked(pauses, masterClock, masterClock')
    /\ UNCHANGED RunFrame

ClkPause ==
    /\ pause
    /\ pauses' = Tracked(pauses, masterClock, masterClock')
    /\ UNCHANGED RunFrame

ClkResume ==
    /\ resume
    /\ pauses' = Tracked(pauses, masterClock, masterClock')
    /\ UNCHANGED RunFrame

ClkSubscribe ==
    \E id \in SubscriberIds, i \in {NULL, TickInterval} :
        subscribe(id, i) /\ UNCHANGED ClkFrame

ClkUnsubscribe ==
    \E id \in SubscriberIds : unsubscribe(id) /\ UNCHANGED ClkFrame

ClkScheduleCallback ==
    \E target \in TargetTimes :
        scheduleCallback(target) /\ UNCHANGED ClkFrame

ClkScheduleRecurring ==
    scheduleRecurring(TickInterval) /\ UNCHANGED ClkFrame

ClkCancelTimer ==
    \E x \in masterClock.timers : cancelTimer(x) /\ UNCHANGED ClkFrame

ClkTimeoutFires ==
    \E tm \in jsTimers : TimeoutFires(tm) /\ UNCHANGED ClkFrame

ClkIntervalFires ==
    \E tm \in jsTimers : IntervalFires(tm) /\ UNCHANGED ClkFrame

ClkTickRuns == TickRuns /\ UNCHANGED ClkFrame

ClkTickTimeoutFires ==
    \E due \in BagToSet(tickLoop.timeouts) :
        TickTimeoutFires(due) /\ UNCHANGED ClkFrame

\* setOptions stops and starts a running clock
ClkSetOptions ==
    /\ setOptions(TickInterval)
    /\ pauses' = Tracked(Tracked(pauses, masterClock, StopOf(masterClock)),
                         StopOf(masterClock), masterClock')
    /\ UNCHANGED RunFrame

NextClock ==
    \/ ClkAdvance
    \/ ClkStart
    \/ ClkStop
    \/ ClkPause
    \/ ClkResume
    \/ ClkSubscribe
    \/ ClkUnsubscribe
    \/ ClkScheduleCallback
    \/ ClkScheduleRecurring
    \/ ClkCancelTimer
    \/ ClkTimeoutFires
    \/ ClkIntervalFires
    \/ ClkTickRuns
    \/ ClkTickTimeoutFires
    \/ ClkSetOptions

----------------------------------------------------------------------------
(* DeviceClock *)

\* new DeviceClock(deviceId, {syncTolerance})
NewDeviceClock(syncTolerance) ==
    [offset |-> R(0),
     driftRate |-> R(0),
     lastSyncTime |-> NULL,
     syncCount |-> 0,
     syncTolerance |-> syncTolerance,
     measurementTimeout |-> MeasurementTimeout,
     latency |-> R(0),
     variance |-> R(0),       \* jitter is the square root of this
     recentLatencies |-> <<>>]

HasClock(d) == d \in DOMAIN deviceClock

NoCall == [op |-> "none", device |-> "", success |-> TRUE,
           masterTime |-> 0, deviceTime |-> 0, roundTripTime |-> 0,
           value |-> R(0), corrections |-> <<>>, syncAccuracy |-> 0]

InitDevice ==
    /\ deviceClock = <<>>
    /\ pending = {}
    /\ lastCall = NoCall

\* _calculateDriftAdjustment
_calculateDriftAdjustment(dc, currentTime) ==
    IF ~Truthy(dc.lastSyncTime) THEN R(0)
    ELSE RDiv(RMul(dc.driftRate, R(currentTime - dc.lastSyncTime)),
              R(1000000))

getSynchronizedTime(dc, masterTime) ==
    RAdd(RAdd(R(masterTime), dc.offset),
         _calculateDriftAdjustment(dc, masterTime))

isSynchronized(dc, masterTime) == RLeq(RAbs(dc.offset), R(dc.syncTolerance))

\* _calculateSyncAccuracy without the floor at zero
_calculateSyncAccuracyUnclamped(dc, offset) ==
    RRound(RMul(R(100), RSub(R(1), RDiv(RAbs(offset),
                                        R(dc.syncTolerance)))))

\* Math.round(100 * max(0, 1 - |offset| / syncTolerance))
_calculateSyncAccuracy(dc, offset) ==
    RRound(RMul(R(100),
                RMax(R(0), RSub(R(1), RDiv(RAbs(offset),
                                           R(dc.syncTolerance))))))

\* getQualityMetrics().quality
Quality(dc) ==
    IF \/ RLess(R(2 * dc.syncTolerance), RAbs(dc.offset))
       \/ RLess(R(50), dc.latency)
    THEN "poor"
    ELSE IF \/ RLess(R(dc.syncTolerance), RAbs(dc.offset))
            \/ RLess(R(20), dc.latency)
         THEN "fair"
         ELSE "good"

RECURSIVE RSum(_)
RSum(seq) == IF seq = <<>> THEN R(0) ELSE RAdd(Head(seq), RSum(Tail(seq)))

\* _updateLatencyMeasurement
_updateLatencyMeasurement(dc, latency) ==
    LET pushed == Append(dc.recentLatencies, latency)
        recent == IF Len(pushed) > MaxLatencySamples THEN Tail(pushed)
                  ELSE pushed
        mean == RDiv(RSum(recent), R(Len(recent)))
        sq == [i \in 1..Len(recent) |->
                 RMul(RSub(recent[i], mean), RSub(recent[i], mean))]
    IN  [dc EXCEPT !.recentLatencies = recent,
                   !.latency = mean,
                   !.variance = RDiv(RSum(sq), R(Len(recent)))]

\* an update that takes the measured offset as it is
UnsmoothedOffset(syncOffset, offset) == syncOffset

\* a smoothed update with the two weights exchanged
SmoothedOffsetSwapped(syncOffset, offset) ==
    RAdd(RMul(Rat(9, 10), syncOffset), RMul(Rat(1, 10), offset))

\* the smoothed update of updateOffset: 0.1 * syncOffset + 0.9 * offset
SmoothedOffset(syncOffset, offset) ==
    RAdd(RMul(Rat(1, 10), syncOffset), RMul(Rat(9, 10), offset))

\* _updateDriftRate: the new driftRate
_updateDriftRate(dc, masterTime, currentOffset, previousOffset) ==
    IF ~Truthy(dc.lastSyncTime) THEN dc.driftRate
    ELSE LET timeDelta == masterTime - dc.lastSyncTime
             offsetDelta == RSub(currentOffset, previousOffset)
         IN  IF timeDelta > 0
             THEN LET driftRatePpm == RDiv(RMul(offsetDelta, R(1000000)),
                                           R(timeDelta))
                  IN  RAdd(RMul(Rat(1, 10), driftRatePpm),
                           RMul(Rat(9, 10), dc.driftRate))
             ELSE dc.driftRate

\* updateOffset applied to clock state dc
UpdatedClock(dc, masterTime, deviceTime, roundTripTime) ==
    LET oneWayLatency == Rat(roundTripTime, 2)
        syncOffset == RSub(R(deviceTime - masterTime), oneWayLatency)
        dc1 == _updateLatencyMeasurement(dc, oneWayLatency)
        previousOffset == dc1.offset
        dc2 == [dc1 EXCEPT !.offset = SmoothedOffset(syncOffset, @)]
        dc3 == [dc2 EXCEPT !.driftRate =
                   _updateDriftRate(dc2, masterTime, dc2.offset,
                                    previousOffset)]
    IN  [dc3 EXCEPT !.lastSyncTime = masterTime, !.syncCount = @ + 1]

newDeviceClock(d) ==
    /\ ~HasClock(d)
    /\ deviceClock' = Put(deviceClock, d, NewDeviceClock(SyncTolerance))
    /\ lastCall' = [NoCall EXCEPT !.op = "new", !.device = d]
    /\ UNCHANGED pending

\* updateOffset of a clock that has been updated fewer than cap times
updateOffsetWithin(cap, d, masterTime, deviceTime, roundTripTime) ==
    /\ HasClock(d)
    /\ deviceClock[d].syncCount < cap
    /\ deviceClock' =
         [deviceClock EXCEPT
            ![d] = UpdatedClock(@, masterTime, deviceTime, roundTripTime)]
    /\ lastCall' =
         [NoCall EXCEPT
            !.op = "updateOffset", !.device = d,
            !.masterTime = masterTime, !.deviceTime = deviceTime,
            !.roundTripTime = roundTripTime,
            !.syncAccuracy =
                _calculateSyncAccuracy(deviceClock'[d],
                                       deviceClock'[d].offset)]
    /\ UNCHANGED pending

updateOffset(d, masterTime, deviceTime, roundTripTime) ==
    updateOffsetWithin(MaxSync, d, masterTime, deviceTime, roundTripTime)

\* performSyncMeasurement up to its await: the ping is sent
performSyncMeasurement(d, masterTime) ==
    /\ HasClock(d)
    /\ Cardinality(pending) < MaxPending
    /\ pending' = pending \cup {[device |-> d, masterTime |-> masterTime,
                                 pingStartTime |-> now]}
    /\ lastCall' = [NoCall EXCEPT !.op = "ping", !.device = d,
                                  !.masterTime = masterTime]
    /\ UNCHANGED deviceClock

\* a measurement check without the timeout
AcceptedAlways(m, roundTripTime) == TRUE

\* the measurement m is accepted by performSyncMeasurement
Accepted(m, roundTripTime) ==
    ~(roundTripTime > deviceClock[m.device].measurementTimeout)

\* performSyncMeasurement after its await: sendPing resolved
pingResolves(m, deviceResponseTime) ==
    LET d == m.device
        roundTripTime == now - m.pingStartTime
    IN  /\ m \in pending
        /\ HasClock(d)
        /\ pending' = pending \ {m}
        /\ IF Accepted(m, roundTripTime)
           THEN /\ deviceClock[d].syncCount < MaxSync
                /\ deviceClock' =
                     [deviceClock EXCEPT
                        ![d] = UpdatedClock(@, m.masterTime,
                                            deviceResponseTime,
                                            roundTripTime)]
                /\ lastCall' =
                     [NoCall EXCEPT
                        !.op = "performSyncMeasurement", !.device = d,
                        !.masterTime = m.masterTime,
                        !.deviceTime = deviceResponseTime,
                        !.roundTripTime = roundTripTime,
                        !.syncAccuracy =
                            _calculateSyncAccuracy(deviceClock'[d],
                                                   deviceClock'[d].offset)]
           ELSE /\ UNCHANGED deviceClock
                /\ lastCall' =
                     [NoCall EXCEPT
                        !.op = "performSyncMeasurement", !.device = d,
                        !.success = FALSE,
                        !.masterTime = m.masterTime,
                        !.deviceTime = deviceResponseTime,
                        !.roundTripTime = roundTripTime]

\* performSyncMeasurement after its await: sendPing rejected
pingRejects(m) ==
    /\ m \in pending
    /\ pending' = pending \ {m}
    /\ lastCall' = [NoCall EXCEPT
                      !.op = "performSyncMeasurement", !.device = m.device,
                      !.success = FALSE, !.masterTime = m.masterTime,
                      !.roundTripTime = now - m.pingStartTime]
    /\ UNCHANGED deviceClock

setConfig(d, measurementTimeout) ==
    /\ HasClock(d)
    /\ deviceClock' = [deviceClock EXCEPT
                         ![d].measurementTimeout = measurementTimeout]
    /\ lastCall' = [NoCall EXCEPT !.op = "setConfig", !.device = d]
    /\ UNCHANGED pending

reset(d) ==
    /\ HasClock(d)
    /\ deviceClock' =
         [deviceClock EXCEPT
            ![d] = [@ EXCEPT !.offset = R(0), !.driftRate = R(0),
                             !.lastSyncTime = NULL, !.syncCount = 0,
                             !.latency = R(0), !.variance = R(0),
                             !.recentLatencies = <<>>]]
    /\ lastCall' = [NoCall EXCEPT !.op = "reset", !.device = d]
    /\ UNCHANGED pending

\* getSynchronizedTime, isSynchronized, getStats, getQualityMetrics
readClock(d, masterTime) ==
    /\ HasClock(d)
    /\ lastCall' =
         [NoCall EXCEPT
            !.op = "read", !.device = d, !.masterTime = masterTime,
            !.success = isSynchronized(deviceClock[d], masterTime),
            !.value = getSynchronizedTime(deviceClock[d], masterTime),
            !.syncAccuracy =
                _calculateSyncAccuracy(deviceClock[d],
                                       deviceClock[d].offset)]
    /\ UNCHANGED <<deviceClock, pending>>

DevAdvance ==
    Advance /\ UNCHANGED AllButNow

DevNew == \E d \in ClockDevices : newDeviceClock(d) /\ UNCHANGED DevFrame

DevUpdateOffset ==
    \E d \in ClockDevices, mt \in MasterTimes, skew \in Skews,
       rtt \in RoundTrips :
        updateOffset(d, mt, mt + skew, rtt) /\ UNCHANGED DevFrame

DevMeasure ==
    \E d \in ClockDevices : performSyncMeasurement(d, now) /\ UNCHANGED DevFrame

DevPingResolves ==
    \E m \in pending, skew \in Skews :
        pingResolves(m, m.masterTime + skew) /\ UNCHANGED DevFrame

DevPingRejects == \E m \in pending : pingRejects(m) /\ UNCHANGED DevFrame

DevSetConfig ==
    \E d \in ClockDevices, t \in MeasurementTimeouts :
        setConfig(d, t) /\ UNCHANGED DevFrame

DevReset == \E d \in ClockDevices : reset(d) /\ UNCHANGED DevFrame

DevRead ==
    \E d \in ClockDevices, mt \in MasterTimes :
        readClock(d, mt) /\ UNCHANGED DevFrame

\* the run of updateOffset calls that carried the same candidate offset:
\* the candidate, the offset before the run's first call, and its length
NoSeries == [candidate |-> R(0), first |-> R(0), calls |-> 0]

\* the candidate offset of a measurement: deviceTime - masterTime - rtt / 2
Candidate(masterTime, deviceTime, roundTripTime) ==
    RSub(R(deviceTime - masterTime), Rat(roundTripTime, 2))

CnvUpdateOffset ==
    \E d \in ClockDevices, mt \in SyncTimes, skew \in RepeatedSkews,
       rtt \in RoundTrips :
        LET candidate == Candidate(mt, mt + skew, rtt)
        IN  /\ updateOffsetWithin(MaxRepeats, d, mt, mt + skew, rtt)
            /\ series' =
                 IF series.calls > 0 /\ series.candidate = candidate
                 THEN [series EXCEPT !.calls = @ + 1]
                 ELSE [candidate |-> candidate,
                       first |-> deviceClock[d].offset,
                       calls |-> 1]
            /\ UNCHANGED CnvFrame

NextConverge ==
    \/ DevNew
    \/ CnvUpdateOffset

\* measurements whose master time may be 0 or run backwards (the master
\* clock counts from 0 at each start), each followed by readings
RdUpdateOffset ==
    \E d \in ClockDevices, mt \in RestartedTimes, skew \in RepeatedSkews,
       rtt \in RoundTrips :
        /\ updateOffsetWithin(MaxReadSyncs, d, mt, mt + skew, rtt)
        /\ UNCHANGED DevFrame

NextReading ==
    \/ DevNew
    \/ RdUpdateOffset
    \/ DevRead

NextDevice ==
    \/ DevAdvance
    \/ DevNew
    \/ DevUpdateOffset
    \/ DevMeasure
    \/ DevPingResolves
    \/ DevPingRejects
    \/ DevSetConfig
    \/ DevReset
    \/ DevRead

----------------------------------------------------------------------------
(* DriftCorrection *)

\* deviceClocks holds the ids whose DeviceClock object (deviceClock[d]) is
\* registered; correctionState maps the same ids to their state
InitDrift ==
    /\ driftCorrection = [driftThreshold |-> Rat(1, 2),
                          maxCorrection |-> R(MaxCorrection),
                          correctionInterval |-> CorrectionInterval,
                          adjustmentSmoothing |-> Rat(1, 10),
                          deviceClocks |-> {},
                          correctionState |-> <<>>,
                          isActive |-> FALSE,
                          lastCorrectionTime |-> NULL,
                          correctionCount |-> 0,
                          averageDrift |-> R(0),
                          driftHistory |-> <<>>]
    /\ correctionLoop = [raf |-> 0, timeouts |-> EmptyBag]

\* number of pending links of correction loops
CorrectionLinks ==
    correctionLoop.raf + BagCardinality(correctionLoop.timeouts)

\* drift of device d at masterTime, as _correctDeviceDrift measures it
DriftOf(d, masterTime) ==
    RSub(getSynchronizedTime(deviceClock[d], masterTime), R(masterTime))

\* _correctDeviceDrift without the driftThreshold test
_correctDeviceDriftAlways(dcr, d, masterTime, force) ==
    LET drift == DriftOf(d, masterTime)
        state == dcr.correctionState[d]
        needsCorrection == TRUE
        rawAdjustment == RNeg(drift)
        clampedAdjustment ==
            RMax(RNeg(dcr.maxCorrection),
                 RMin(dcr.maxCorrection, rawAdjustment))
        smoothedAdjustment ==
            RAdd(RMul(dcr.adjustmentSmoothing, clampedAdjustment),
                 RMul(RSub(R(1), dcr.adjustmentSmoothing),
                      state.pendingAdjustment))
    IN  IF ~needsCorrection
        THEN [applied |-> FALSE, drift |-> drift, adjustment |-> R(0),
              state |-> state]
        ELSE [applied |-> TRUE, drift |-> drift,
              adjustment |-> smoothedAdjustment,
              state |-> [pendingAdjustment |-> smoothedAdjustment,
                         lastAdjustment |-> smoothedAdjustment,
                         correctionCount |-> state.correctionCount + 1,
                         quality |-> Quality(deviceClock[d])]]

\* _correctDeviceDrift: the result and the device's new correction state
_correctDeviceDrift(dcr, d, masterTime, force) ==
    LET drift == DriftOf(d, masterTime)
        state == dcr.correctionState[d]
        needsCorrection == force \/ RLess(dcr.driftThreshold, RAbs(drift))
        rawAdjustment == RNeg(drift)
        clampedAdjustment ==
            RMax(RNeg(dcr.maxCorrection),
                 RMin(dcr.maxCorrection, rawAdjustment))
        smoothedAdjustment ==
            RAdd(RMul(dcr.adjustmentSmoothing, clampedAdjustment),
                 RMul(RSub(R(1), dcr.adjustmentSmoothing),
                      state.pendingAdjustment))
    IN  IF ~needsCorrection
        THEN [applied |-> FALSE, drift |-> drift, adjustment |-> R(0),
              state |-> state]
        ELSE [applied |-> TRUE, drift |-> drift,
              adjustment |-> smoothedAdjustment,
              state |-> [pendingAdjustment |-> smoothedAdjustment,
                         lastAdjustment |-> smoothedAdjustment,
                         correctionCount |-> state.correctionCount + 1,
                         quality |-> Quality(deviceClock[d])]]

RECURSIVE RSumOver(_, _)
RSumOver(f, S) ==
    IF S = {} THEN R(0)
    ELSE LET x == CHOOSE y \in S : TRUE
         IN  RAdd(f[x], RSumOver(f, S \ {x}))

\* _updateCorrectionStatistics
_updateCorrectionStatistics(dcr, corrections, timestamp) ==
    IF DOMAIN corrections = {} THEN dcr
    ELSE LET n == Cardinality(DOMAIN corrections)
             drifts == [d \in DOMAIN corrections |->
                          RAbs(corrections[d].drift)]
             adjustments == [d \in DOMAIN corrections |->
                               RAbs(corrections[d].adjustment)]
             averageDrift == RDiv(RSumOver(drifts, DOMAIN drifts), R(n))
             pushed ==
                 Append(dcr.driftHistory,
                        [timestamp |-> timestamp,
                         averageDrift |-> averageDrift,
                         deviceCount |-> n,
                         totalAdjustment |->
                             RSumOver(adjustments, DOMAIN adjustments)])
         IN  [dcr EXCEPT
                !.averageDrift = RAdd(RMul(Rat(1, 10), averageDrift),
                                      RMul(Rat(9, 10), @)),
                !.driftHistory = IF Len(pushed) > MaxHistorySize
                                 THEN Tail(pushed) ELSE pushed]

\* performCorrection of an active corrector: its new state and the
\* corrections it reports
PerformedCorrection(dcr, masterTime) ==
    LET res == [d \in dcr.deviceClocks |->
                  _correctDeviceDrift(dcr, d, masterTime, FALSE)]
        applied == {d \in dcr.deviceClocks : res[d].applied}
        corrections == [d \in applied |->
                          [drift |-> res[d].drift,
                           adjustment |-> res[d].adjustment]]
        corrected == [dcr EXCEPT
                        !.correctionState =
                            [d \in DOMAIN @ |->
                               IF d \in dcr.deviceClocks THEN res[d].state
                               ELSE @[d]]]
        counted == _updateCorrectionStatistics(corrected, corrections,
                                               masterTime)
    IN  [dcr |-> [counted EXCEPT !.correctionCount = @ + 1,
                                 !.lastCorrectionTime = masterTime],
         corrections |-> corrections]

\* caps of the model on the correction counters
CanCorrect(dcr) ==
    /\ dcr.correctionCount < MaxCorrections
    /\ \A d \in DOMAIN dcr.correctionState :
          dcr.correctionState[d].correctionCount < MaxCorrections

\* _startCorrectionLoop: requestAnimationFrame(correctionLoop)
_startCorrectionLoop(loop) == [loop EXCEPT !.raf = @ + 1]

startCorrection ==
    /\ IF driftCorrection.isActive
       THEN UNCHANGED <<driftCorrection, correctionLoop>>
       ELSE /\ CorrectionLinks < MaxCorrectionLoops
            /\ driftCorrection' =
                 [driftCorrection EXCEPT !.isActive = TRUE,
                                         !.lastCorrectionTime = now]
            /\ correctionLoop' = _startCorrectionLoop(correctionLoop)

stopCorrection ==
    /\ driftCorrection' = [driftCorrection EXCEPT !.isActive = FALSE]
    /\ UNCHANGED correctionLoop

\* addDevice applied to corrector state dcr
AddedDevice(dcr, d) ==
    [dcr EXCEPT
       !.deviceClocks = @ \cup {d},
       !.correctionState =
           Put(@, d, [pendingAdjustment |-> R(0),
                      lastAdjustment |-> R(0),
                      correctionCount |-> 0,
                      quality |-> "unknown"])]

\* removeDevice applied to corrector state dcr
RemovedDevice(dcr, d) ==
    [dcr EXCEPT !.deviceClocks = @ \ {d},
                !.correctionState = Del(@, d)]

addDevice(d) ==
    /\ HasClock(d)
    /\ driftCorrection' = AddedDevice(driftCorrection, d)

removeDevice(d) == driftCorrection' = RemovedDevice(driftCorrection, d)

performCorrection(masterTime) ==
    IF ~driftCorrection.isActive
    THEN /\ lastCall' = [NoCall EXCEPT !.op = "performCorrection",
                                       !.success = FALSE,
                                       !.masterTime = masterTime]
         /\ UNCHANGED driftCorrection
    ELSE LET done == PerformedCorrection(driftCorrection, masterTime)
         IN  /\ CanCorrect(driftCorrection)
             /\ driftCorrection' = done.dcr
             /\ lastCall' = [NoCall EXCEPT !.op = "performCorrection",
                                           !.masterTime = masterTime,
                                           !.corrections = done.corrections]

forceDeviceCorrection(d, masterTime) ==
    IF d \notin driftCorrection.deviceClocks
    THEN /\ lastCall' = [NoCall EXCEPT !.op = "forceDeviceCorrection",
                                       !.device = d, !.success = FALSE,
                                       !.masterTime = masterTime]
         /\ UNCHANGED driftCorrection
    ELSE LET res == _correctDeviceDrift(driftCorrection, d, masterTime, TRUE)
         IN  /\ CanCorrect(driftCorrection)
             /\ driftCorrection' =
                  [driftCorrection EXCEPT !.correctionState[d] = res.state]
             /\ lastCall' =
                  [NoCall EXCEPT
                     !.op = "forceDeviceCorrection", !.device = d,
                     !.masterTime = masterTime,
                     !.corrections =
                         [x \in {d} |-> [drift |-> res.drift,
                                         adjustment |-> res.adjustment]]]

setConfiguration(maxCorrection) ==
    driftCorrection' = [driftCorrection EXCEPT !.maxCorrection = maxCorrection]

\* the correctionLoop closure runs from requestAnimationFrame
CorrectionLoopRuns ==
    /\ correctionLoop.raf > 0
    /\ IF ~driftCorrection.isActive
       THEN /\ correctionLoop' = [correctionLoop EXCEPT !.raf = @ - 1]
            /\ UNCHANGED <<driftCorrection, lastCall>>
       ELSE /\ IF \/ ~Truthy(driftCorrection.lastCorrectionTime)
                  \/ now - driftCorrection.lastCorrectionTime
                        >= driftCorrection.correctionInterval
               THEN LET done == PerformedCorrection(driftCorrection, now)
                    IN  /\ CanCorrect(driftCorrection)
                        /\ driftCorrection' = done.dcr
                        /\ lastCall' =
                             [NoCall EXCEPT
                                !.op = "correctionLoop",
                                !.masterTime = now,
                                !.corrections = done.corrections]
               ELSE UNCHANGED <<driftCorrection, lastCall>>
            /\ correctionLoop' =
                 [correctionLoop EXCEPT
                    !.raf = @ - 1,
                    !.timeouts =
                        @ (+) SetToBag(
                                {now + driftCorrection.correctionInterval})]

\* the setTimeout callback of the correction loop runs
CorrectionTimeoutFires(due) ==
    /\ BagIn(due, correctionLoop.timeouts)
    /\ now >= due
    /\ correctionLoop' =
         [correctionLoop EXCEPT !.timeouts = @ (-) SetToBag({due}),
                                !.raf = @ + 1]

DrfAdvance ==
    Advance /\ UNCHANGED AllButNow

DrfNewClock ==
    \E d \in ClockDevices :
        newDeviceClock(d) /\ UNCHANGED <<DrfFrame, driftVars>>

DrfUpdateOffset ==
    \E d \in ClockDevices, mt \in SyncTimes, skew \in DriftSkews :
        updateOffset(d, mt, mt + skew, 0) /\ UNCHANGED <<DrfFrame, driftVars>>

DrfStart ==
    startCorrection /\ UNCHANGED <<DrfFrame, deviceVars>>

DrfStop ==
    stopCorrection /\ UNCHANGED <<DrfFrame, deviceVars>>

DrfAddDevice ==
    \E d \in ClockDevices :
        addDevice(d) /\ UNCHANGED <<DrfFrame, deviceVars, correctionLoop>>

DrfRemoveDevice ==
    \E d \in ClockDevices :
        removeDevice(d) /\ UNCHANGED <<DrfFrame, deviceVars, correctionLoop>>

DrfPerformCorrection ==
    \E mt \in CorrectionTimes :
        /\ performCorrection(mt)
        /\ UNCHANGED <<DrfFrame, deviceClock, pending, correctionLoop>>

DrfForceDeviceCorrection ==
    \E d \in ClockDevices, mt \in CorrectionTimes :
        /\ forceDeviceCorrection(d, mt)
        /\ UNCHANGED <<DrfFrame, deviceClock, pending, correctionLoop>>

DrfSetConfiguration ==
    \E mc \in MaxCorrectionChoices :
        /\ setConfiguration(mc)
        /\ UNCHANGED <<DrfFrame, deviceVars, correctionLoop>>

DrfCorrectionLoopRuns ==
    CorrectionLoopRuns /\ UNCHANGED <<DrfFrame, deviceClock, pending>>

DrfCorrectionTimeoutFires ==
    \E due \in BagToSet(correctionLoop.timeouts) :
        /\ CorrectionTimeoutFires(due)
        /\ UNCHANGED <<DrfFrame, deviceVars, driftCorrection>>

NextDrift ==
    \/ DrfAdvance
    \/ DrfNewClock
    \/ DrfUpdateOffset
    \/ DrfStart
    \/ DrfStop
    \/ DrfAddDevice
    \/ DrfRemoveDevice
    \/ DrfPerformCorrection
    \/ DrfForceDeviceCorrection
    \/ DrfSetConfiguration
    \/ DrfCorrectionLoopRuns
    \/ DrfCorrectionTimeoutFires

\* performCorrection over several devices, some drifting within the
\* threshold and some beyond it
SmallSkews == {3, 30}

CorNewClock ==
    \E d \in Devices :
        newDeviceClock(d) /\ UNCHANGED <<DrfFrame, driftVars>>

CorUpdateOffset ==
    \E d \in Devices, mt \in SyncTimes, skew \in SmallSkews :
        updateOffset(d, mt, mt + skew, 0) /\ UNCHANGED <<DrfFrame, driftVars>>

CorAddDevice ==
    \E d \in Devices :
        addDevice(d) /\ UNCHANGED <<DrfFrame, deviceVars, correctionLoop>>

CorForceDeviceCorrection ==
    \E d \in Devices, mt \in CorrectionTimes :
        /\ forceDeviceCorrection(d, mt)
        /\ UNCHANGED <<DrfFrame, deviceClock, pending, correctionLoop>>

NextCorrection ==
    \/ CorNewClock
    \/ CorUpdateOffset
    \/ DrfStart
    \/ CorAddDevice
    \/ DrfPerformCorrection
    \/ CorForceDeviceCorrection

----------------------------------------------------------------------------
(* AudioSyncEngine and the WebBluetoothAudioSync coordinator *)

\* The coordinator's deviceClocks map is the variable deviceClock; setups
\* are the _setupDeviceSynchronization calls waiting in
\* _measureDeviceLatency; stopping is a stop() waiting in
\* _disconnectAllDevices.  _calculateSyncAdjustment yields 0 for every plan
\* (its drift is the difference of two equal times and lastAdjustment
\* stays 0), so _processDeviceSync never calls _applySyncAdjustment.
InitSystem ==
    /\ coordinator = [isRunning |-> FALSE,
                      isSynchronized |-> FALSE,
                      stopping |-> FALSE,
                      activeDevices |-> {},
                      setups |-> {},
                      activeSyncSessions |-> 0]
    /\ audioSyncEngine = [isRunning |-> FALSE,
                          activeDevices |-> {},
                          syncPlans |-> <<>>,
                          bufferQueues |-> {},
                          totalSyncOperations |-> 0,
                          successfulSyncs |-> 0,
                          failedSyncs |-> 0,
                          averageSyncAccuracy |-> R(0)]
    /\ syncLoop = [raf |-> 0, timeouts |-> EmptyBag]

SyncLinks == syncLoop.raf + BagCardinality(syncLoop.timeouts)

\* bufferAdjustments is the empty array of _createEmptySyncPlan or the
\* object {initialDelay, bufferOffset, sampleRateOffset, syncInterval}
\* that _createDeviceSyncPlan assigns to it
_createEmptySyncPlan ==
    [started |-> FALSE, completed |-> FALSE, startTime |-> NULL,
     targetStartTime |-> NULL, audioDuration |-> NULL,
     bufferAdjustments |-> "array"]

_createDeviceSyncPlan(masterStartTime, initialDelay) ==
    [_createEmptySyncPlan EXCEPT
       !.targetStartTime = masterStartTime + initialDelay,
       !.audioDuration = AudioDuration,
       !.bufferAdjustments = "object"]

\* _calculateDeviceAccuracy and _assessDeviceQuality call
\* bufferAdjustments.reduce, which an object does not have: a TypeError
AccuracyThrows(plan) == plan.bufferAdjustments = "object"

\* AudioSyncEngine.addDevice applied to engine state e
EngineAddDevice(e, d) ==
    IF d \in e.activeDevices THEN e
    ELSE [e EXCEPT !.activeDevices = @ \cup {d},
                   !.bufferQueues = @ \cup {d},
                   !.syncPlans = Put(@, d, _createEmptySyncPlan)]

\* AudioSyncEngine.stop applied to engine state e
EngineStop(e) ==
    IF ~e.isRunning THEN e
    ELSE [e EXCEPT !.isRunning = FALSE, !.syncPlans = <<>>,
                   !.bufferQueues = {}, !.activeDevices = {}]

\* createSyncPlan applied to engine state e
createSyncPlan(e, deviceIds, masterStartTime, initialDelay) ==
    [e EXCEPT
       !.activeDevices = @ \cup deviceIds,
       !.bufferQueues = @ \cup (deviceIds \ e.activeDevices),
       !.syncPlans =
           [d \in DOMAIN @ \cup deviceIds |->
              IF d \in deviceIds
              THEN _createDeviceSyncPlan(masterStartTime, initialDelay)
              ELSE @[d]]]

\* a completion that takes the plan out of Started
_processDeviceSyncLeavesStarted(plan, currentTime) ==
    IF /\ plan.startTime # NULL
       /\ plan.audioDuration # NULL
       /\ currentTime >= plan.startTime + plan.audioDuration
    THEN [plan EXCEPT !.completed = TRUE, !.started = FALSE]
    ELSE plan

\* _processDeviceSync: the plan after being processed at currentTime; its
\* return statement calls _calculateDeviceAccuracy, so after these
\* assignments it throws when AccuracyThrows(plan)
_processDeviceSync(plan, currentTime) ==
    IF /\ plan.startTime # NULL
       /\ plan.audioDuration # NULL
       /\ currentTime >= plan.startTime + plan.audioDuration
    THEN [plan EXCEPT !.completed = TRUE]
    ELSE plan

\* the plans _processActiveSync processes
ActivePlans(e) ==
    {d \in DOMAIN e.syncPlans :
        e.syncPlans[d].started /\ ~e.syncPlans[d].completed}

\* the sets of plans one pass of _processActiveSync can reach: all active
\* plans, or the plans the Map holds up to the first one whose processing
\* throws
Reached(e) ==
    LET throwing == {d \in ActivePlans(e) : AccuracyThrows(e.syncPlans[d])}
    IN  IF throwing = {} THEN {ActivePlans(e)}
        ELSE {before \cup {t} :
                 t \in throwing,
                 before \in SUBSET (ActivePlans(e) \ throwing)}

_processActiveSync(e, currentTime, reached) ==
    [e EXCEPT !.syncPlans =
        [d \in DOMAIN @ |->
           IF d \in reached
           THEN _processDeviceSync(@[d], currentTime) ELSE @[d]]]

\* _synchronizeDevicePlayback: the plan afterwards
_synchronizeDevicePlayback(plan, currentTime) ==
    LET begun == IF /\ ~plan.started
                    /\ plan.targetStartTime # NULL
                    /\ currentTime >= plan.targetStartTime
                 THEN [plan EXCEPT !.started = TRUE,
                                   !.startTime = currentTime]
                 ELSE plan
    IN  IF begun.started /\ ~begun.completed
        THEN _processDeviceSync(begun, currentTime)
        ELSE begun

\* The listeners of 'devicePlaybackStarted' and 'devicePlaybackCompleted'
\* run inside emit; a fault names the emit of one device's processing at
\* which a listener throws.
Faults == {"none", "started", "completed"}

NoFaults == [d \in Devices |-> "none"]

\* one pass of the loop of synchronizePlayback: the plan afterwards and
\* the success flag of the result pushed for the device
SynchronizedDevice(plan, currentTime, fault) ==
    LET begins == /\ ~plan.started
                  /\ plan.targetStartTime # NULL
                  /\ currentTime >= plan.targetStartTime
        begun == IF begins
                 THEN [plan EXCEPT !.started = TRUE,
                                   !.startTime = currentTime]
                 ELSE plan
        processed == _processDeviceSync(begun, currentTime)
    IN  IF begins /\ fault = "started"
        THEN [plan |-> begun, success |-> FALSE]
        ELSE IF begun.started /\ ~begun.completed
             THEN IF \/ processed.completed /\ fault = "completed"
                     \/ AccuracyThrows(processed)
                  THEN [plan |-> processed, success |-> FALSE]
                  ELSE [plan |-> processed, success |-> TRUE]
             ELSE [plan |-> begun, success |-> TRUE]

\* a loop that a throwing listener ends: the devices it fails for take
\* the batch with them
OutcomesAborting(e, currentTime, fault) ==
    LET all == [d \in DOMAIN e.syncPlans |->
                  SynchronizedDevice(e.syncPlans[d], currentTime, fault[d])]
    IN  IF \E d \in DOMAIN all : ~all[d].success
        THEN [d \in {x \in DOMAIN all : ~all[x].success} |-> all[d]]
        ELSE all

\* the loop of synchronizePlayback over the plans: try/catch per device
Outcomes(e, currentTime, fault) ==
    [d \in DOMAIN e.syncPlans |->
       SynchronizedDevice(e.syncPlans[d], currentTime, fault[d])]

\* synchronizePlayback of a running engine e: the engine afterwards and
\* the results returned
SynchronizedBatch(e, currentTime, fault) ==
    LET out == Outcomes(e, currentTime, fault)
        ok == {d \in DOMAIN out : out[d].success}
    IN  [engine |->
            [e EXCEPT
               !.syncPlans = [d \in DOMAIN @ |->
                                IF d \in DOMAIN out THEN out[d].plan
                                ELSE @[d]],
               !.successfulSyncs = @ + Cardinality(ok),
               !.failedSyncs = @ + Cardinality(DOMAIN out \ ok),
               !.totalSyncOperations = @ + 1],
         results |-> [d \in DOMAIN out |-> out[d].success]]

\* AudioSyncEngine.start
startEngine ==
    IF audioSyncEngine.isRunning
    THEN UNCHANGED <<audioSyncEngine, syncLoop>>
    ELSE /\ SyncLinks < MaxSyncLoops
         /\ audioSyncEngine' = [audioSyncEngine EXCEPT !.isRunning = TRUE]
         /\ syncLoop' = [syncLoop EXCEPT !.raf = @ + 1]

\* AudioSyncEngine.synchronizePlayback of a running engine
synchronizePlayback ==
    /\ audioSyncEngine.isRunning
    /\ audioSyncEngine.totalSyncOperations < MaxSyncOps
    /\ audioSyncEngine' =
         SynchronizedBatch(audioSyncEngine, now, NoFaults).engine

\* the syncLoop closure runs from requestAnimationFrame
SyncLoopRuns ==
    /\ syncLoop.raf > 0
    /\ IF ~audioSyncEngine.isRunning
       THEN /\ syncLoop' = [syncLoop EXCEPT !.raf = @ - 1]
            /\ UNCHANGED <<audioSyncEngine, lastCall>>
       ELSE \E reached \in Reached(audioSyncEngine) :
            /\ audioSyncEngine' =
                 _processActiveSync(audioSyncEngine, now, reached)
            /\ lastCall' = IF ActivePlans(audioSyncEngine) # {}
                           THEN [NoCall EXCEPT !.op = "syncLoop",
                                               !.masterTime = now]
                           ELSE lastCall
            /\ syncLoop' =
                 IF \E d \in reached :
                       AccuracyThrows(audioSyncEngine.syncPlans[d])
                 THEN \* the TypeError leaves syncLoop before its setTimeout
                      [syncLoop EXCEPT !.raf = @ - 1]
                 ELSE [syncLoop EXCEPT
                         !.raf = @ - 1,
                         !.timeouts =
                             @ (+) SetToBag({now + SyncLoopInterval})]

\* the setTimeout callback of the sync loop runs
SyncTimeoutFires(due) ==
    /\ BagIn(due, syncLoop.timeouts)
    /\ now >= due
    /\ syncLoop' = [syncLoop EXCEPT !.timeouts = @ (-) SetToBag({due}),
                                    !.raf = @ + 1]

\* what the coordinator runs leave alone
SysFrame == <<bufferVars, pending, latencyVars, series, pauses>>

SysAdvance ==
    /\ \E t \in SysInstants : t > now /\ now' = t
    /\ UNCHANGED AllButNow

\* WebBluetoothAudioSync.start
CoordStart ==
    /\ IF coordinator.isRunning
       THEN UNCHANGED <<clockVars, driftVars, systemVars>>
       ELSE /\ start
            /\ startCorrection
            /\ startEngine
            /\ coordinator' = [coordinator EXCEPT !.isRunning = TRUE]
    /\ UNCHANGED <<now, SysFrame, deviceClock, lastCall>>

\* WebBluetoothAudioSync.stop up to its wait for the devices to disconnect
CoordStop ==
    /\ IF ~coordinator.isRunning
       THEN UNCHANGED <<clockVars, driftVars, coordinator, audioSyncEngine>>
       ELSE /\ stop
            /\ stopCorrection
            /\ audioSyncEngine' = EngineStop(audioSyncEngine)
            /\ coordinator' = [coordinator EXCEPT !.stopping = TRUE]
    /\ UNCHANGED <<now, SysFrame, deviceClock, lastCall, syncLoop>>

\* WebBluetoothAudioSync.stop after _disconnectAllDevices
CoordStopFinish ==
    /\ coordinator.stopping
    /\ coordinator' = [coordinator EXCEPT !.isRunning = FALSE,
                                          !.isSynchronized = FALSE,
                                          !.stopping = FALSE]
    /\ UNCHANGED <<now, SysFrame, clockVars, deviceClock, lastCall,
                   driftVars, audioSyncEngine, syncLoop>>

\* masterClock.stop()
SysClockStop ==
    /\ stop
    /\ UNCHANGED <<now, SysFrame, deviceClock, lastCall, driftVars,
                   systemVars>>

\* a tick of the master clock with _handleMasterClockTick
SysTickRuns ==
    /\ TickRuns
    /\ IF /\ masterClock.isRunning
          /\ ~masterClock.paused
          /\ masterClock.tickCount % 10 = 0
       THEN performCorrection(getCurrentTime)
       ELSE UNCHANGED <<driftCorrection, lastCall>>
    /\ UNCHANGED <<now, SysFrame, deviceClock, correctionLoop, systemVars>>

SysTickTimeoutFires ==
    \E due \in BagToSet(tickLoop.timeouts) :
        /\ TickTimeoutFires(due)
        /\ UNCHANGED <<now, SysFrame, deviceClock, lastCall, driftVars,
                       systemVars>>

SysCorrectionLoopRuns ==
    /\ CorrectionLoopRuns
    /\ UNCHANGED <<now, SysFrame, clockVars, deviceClock, systemVars>>

SysCorrectionTimeoutFires ==
    \E due \in BagToSet(correctionLoop.timeouts) :
        /\ CorrectionTimeoutFires(due)
        /\ UNCHANGED <<now, SysFrame, clockVars, deviceClock, lastCall,
                       driftCorrection, systemVars>>

SysSyncLoopRuns ==
    /\ SyncLoopRuns
    /\ UNCHANGED <<now, SysFrame, clockVars, deviceClock, driftVars,
                   coordinator>>

SysSyncTimeoutFires ==
    \E due \in BagToSet(syncLoop.timeouts) :
        /\ SyncTimeoutFires(due)
        /\ UNCHANGED <<now, SysFrame, clockVars, deviceClock, lastCall,
                       driftVars, coordinator, audioSyncEngine>>

\* _handleDeviceConnected: _setupDeviceSynchronization up to its wait for
\* _measureDeviceLatency
DeviceConnected(d) ==
    /\ deviceClock' = Put(deviceClock, d, NewDeviceClock(SyncTolerance))
    /\ coordinator' = [coordinator EXCEPT !.activeDevices = @ \cup {d},
                                          !.setups = @ \cup {d}]
    /\ driftCorrection' = AddedDevice(driftCorrection, d)
    /\ lastCall' = [NoCall EXCEPT !.op = "new", !.device = d]
    /\ UNCHANGED <<now, SysFrame, clockVars, correctionLoop,
                   audioSyncEngine, syncLoop>>

\* _setupDeviceSynchronization after _measureDeviceLatency, which is
\* called without a ping function and so never obtains a latency
DeviceSynchronized(d) ==
    /\ d \in coordinator.setups
    /\ coordinator' = [coordinator EXCEPT !.setups = @ \ {d}]
    /\ UNCHANGED <<now, SysFrame, clockVars, deviceClock, lastCall,
                   driftVars, audioSyncEngine, syncLoop>>

\* _handleDeviceDisconnected
DeviceDisconnected(d) ==
    /\ deviceClock' = Del(deviceClock, d)
    /\ coordinator' = [coordinator EXCEPT !.activeDevices = @ \ {d}]
    /\ driftCorrection' = RemovedDevice(driftCorrection, d)
    /\ UNCHANGED <<now, SysFrame, clockVars, lastCall, correctionLoop,
                   audioSyncEngine, syncLoop>>

\* startSynchronizedPlayback
\* a startSynchronizedPlayback without its two checks
startSynchronizedPlaybackUnchecked(initialDelay) ==
    /\ coordinator.activeSyncSessions < MaxSessions
    /\ audioSyncEngine' =
         createSyncPlan(audioSyncEngine, coordinator.activeDevices,
                        getSyncTime, initialDelay)
    /\ coordinator' = [coordinator EXCEPT !.activeSyncSessions = @ + 1,
                                          !.isSynchronized = TRUE]
    /\ UNCHANGED <<now, SysFrame, clockVars, deviceClock, lastCall,
                   driftVars, syncLoop>>

\* the two throws at its head leave startSynchronizedPlayback without effect
startSynchronizedPlayback(initialDelay) ==
    /\ coordinator.isRunning
    /\ coordinator.activeDevices # {}
    /\ coordinator.activeSyncSessions < MaxSessions
    /\ audioSyncEngine' =
         createSyncPlan(audioSyncEngine, coordinator.activeDevices,
                        getSyncTime, initialDelay)
    /\ coordinator' = [coordinator EXCEPT !.activeSyncSessions = @ + 1,
                                          !.isSynchronized = TRUE]
    /\ UNCHANGED <<now, SysFrame, clockVars, deviceClock, lastCall,
                   driftVars, syncLoop>>

SysDeviceConnected == \E d \in ClockDevices : DeviceConnected(d)

SysDeviceSynchronized == \E d \in ClockDevices : DeviceSynchronized(d)

SysDeviceDisconnected == \E d \in ClockDevices : DeviceDisconnected(d)

SysStartPlayback ==
    \E initialDelay \in InitialDelays :
        startSynchronizedPlayback(initialDelay)

SysSynchronizePlayback ==
    /\ synchronizePlayback
    /\ UNCHANGED <<now, SysFrame, clockVars, deviceClock, lastCall,
                   driftVars, coordinator, syncLoop>>

NextSystem ==
    \/ SysAdvance
    \/ CoordStart
    \/ CoordStop
    \/ CoordStopFinish
    \/ SysClockStop
    \/ SysTickRuns
    \/ SysTickTimeoutFires
    \/ SysCorrectionLoopRuns
    \/ SysCorrectionTimeoutFires
    \/ SysSyncLoopRuns
    \/ SysSyncTimeoutFires
    \/ SysDeviceConnected
    \/ SysDeviceSynchronized
    \/ SysDeviceDisconnected
    \/ SysStartPlayback
    \/ SysSynchronizePlayback

\* The Coordinator's device set on its own: connections and disconnections
\* of more devices than the configured maximum
AdmDeviceConnected == \E d \in AdmissionDevices : DeviceConnected(d)

AdmDeviceSynchronized == \E d \in AdmissionDevices : DeviceSynchronized(d)

AdmDeviceDisconnected ==
    \E d \in DisconnectingDevices : DeviceDisconnected(d)

NextAdmission ==
    \/ AdmDeviceConnected
    \/ AdmDeviceSynchronized
    \/ AdmDeviceDisconnected

\* The engine on its own, with plans for several devices and listeners
\* that may throw
PbFrame == <<bufferVars, clockVars, deviceClock, pending, driftVars,
             coordinator, latencyVars, series, pauses>>

PbAdvance ==
    /\ \E t \in PlaybackInstants : t > now /\ now' = t
    /\ UNCHANGED AllButNow

PbStart ==
    startEngine /\ UNCHANGED <<now, PbFrame, lastCall>>

PbCreateSyncPlan ==
    \E ids \in SUBSET Devices, initialDelay \in InitialDelays :
        /\ ids # {}
        /\ \A d \in ids : d \notin DOMAIN audioSyncEngine.syncPlans
        /\ audioSyncEngine' =
             createSyncPlan(audioSyncEngine, ids, now, initialDelay)
        /\ UNCHANGED <<now, PbFrame, lastCall, syncLoop>>

\* synchronizePlayback with the listeners' faults chosen by the environment
synchronizePlaybackWith(fault) ==
    /\ audioSyncEngine.isRunning
    /\ audioSyncEngine.totalSyncOperations < MaxBatchSyncs
    /\ LET done == SynchronizedBatch(audioSyncEngine, now, fault)
       IN  /\ audioSyncEngine' = done.engine
           /\ lastCall' = [NoCall EXCEPT !.op = "synchronizePlayback",
                                         !.masterTime = now,
                                         !.corrections = done.results]

PbSynchronizePlayback ==
    \E fault \in [Devices -> Faults] :
        /\ synchronizePlaybackWith(fault)
        /\ UNCHANGED <<now, PbFrame, syncLoop>>

\* _calculateDeviceAccuracy: an array of bufferAdjustments is empty, so
\* the average deviation is 0 and the accuracy 100; without a plan it is 0
_calculateDeviceAccuracy(e, d) ==
    IF d \notin DOMAIN e.syncPlans THEN 0 ELSE 100

\* getSyncAccuracy applied to engine state e; a TypeError of
\* _calculateDeviceAccuracy leaves it before the assignment
getSyncAccuracy(e) ==
    IF e.activeDevices = {} THEN e
    ELSE IF \E d \in e.activeDevices \cap DOMAIN e.syncPlans :
               AccuracyThrows(e.syncPlans[d])
    THEN e
    ELSE LET accuracies == [d \in e.activeDevices |->
                              R(_calculateDeviceAccuracy(e, d))]
             overallAccuracy ==
                 RDiv(RSumOver(accuracies, e.activeDevices),
                      R(Cardinality(e.activeDevices)))
         IN  [e EXCEPT !.averageSyncAccuracy =
                 RAdd(RMul(Rat(1, 10), overallAccuracy),
                      RMul(Rat(9, 10), @))]

PbAddDevice ==
    \E d \in Devices :
        /\ audioSyncEngine' = EngineAddDevice(audioSyncEngine, d)
        /\ UNCHANGED <<now, PbFrame, lastCall, syncLoop>>

PbGetSyncAccuracy ==
    /\ audioSyncEngine.averageSyncAccuracy[2] < MaxAccuracyDigits
    /\ audioSyncEngine' = getSyncAccuracy(audioSyncEngine)
    /\ lastCall' = [NoCall EXCEPT !.op = "getSyncAccuracy"]
    /\ UNCHANGED <<now, PbFrame, syncLoop>>

NextPlayback ==
    \/ PbAdvance
    \/ PbStart
    \/ PbCreateSyncPlan
    \/ PbSynchronizePlayback
    \/ PbAddDevice
    \/ PbGetSyncAccuracy

----------------------------------------------------------------------------
(* LatencyCompensation *)

InitLatency ==
    /\ latencyCompensation =
         [measurementStates |-> <<>>,
          deviceLatencies |-> <<>>,
          latencyHistory |-> <<>>,
          latencyStats |-> [totalMeasurements |-> 0,
                            successfulMeasurements |-> 0,
                            failedMeasurements |-> 0,
                            averageLatency |-> R(0),
                            lastMeasurementTime |-> NULL]]
    /\ monitoring = [calls |-> {}, timeouts |-> EmptyBag,
                     active |-> {}, started |-> 0, lastId |-> 0,
                     lastResult |-> NoLatencyResult]

\* measureLatency up to its first await: the measurement state of the
\* device is set and the first probe of _performLatencyMeasurement is sent;
\* inLoop tells whether monitoringLoop awaits the call; mon is the
\* monitoring state the call starts from
measureLatency(d, inLoop, mon) ==
    /\ mon.lastId < MaxBatches
    /\ latencyCompensation' =
         [latencyCompensation EXCEPT
            !.measurementStates = Put(@, d, mon.lastId + 1)]
    /\ monitoring' =
         [mon EXCEPT
            !.calls = @ \cup {[device |-> d, id |-> mon.lastId + 1,
                               inLoop |-> inLoop, attempts |-> 1,
                               measurements |-> <<>>,
                               stage |-> "ping", since |-> now]},
            !.lastId = @ + 1]

\* one run of the monitoringLoop closure of device d
monitoringLoop(d, mon) ==
    IF d \notin DOMAIN latencyCompensation.measurementStates
    THEN \* return; // Monitoring stopped
         /\ monitoring' = mon
         /\ UNCHANGED latencyCompensation
    ELSE measureLatency(d, TRUE, mon)

startLatencyMonitoring(d) ==
    /\ monitoring.started < MaxStarts
    /\ monitoringLoop(d, [monitoring EXCEPT !.active = @ \cup {d},
                                            !.started = @ + 1])

stopLatencyMonitoring(d) ==
    /\ latencyCompensation' =
         [latencyCompensation EXCEPT !.measurementStates = Del(@, d)]
    /\ monitoring' = [monitoring EXCEPT !.active = @ \ {d}]

\* the result object of a probe that failed; measured keeps the round trip
\* the probe took (NULL when sendPingFunction rejected)
FailedMeasurement(measured) ==
    [roundTripTime |-> 0, success |-> FALSE, measured |-> measured]

\* a validation without the check of the one-way latency
_singleLatencyMeasurementAnyLatency(roundTripTime) ==
    IF \/ roundTripTime > Timeout
       \/ roundTripTime <= 0
    THEN FailedMeasurement(roundTripTime)
    ELSE [roundTripTime |-> roundTripTime, success |-> TRUE,
          measured |-> roundTripTime]

\* _singleLatencyMeasurement once sendPingFunction has resolved, the round
\* trip having taken roundTripTime (oneWayLatency is roundTripTime / 2)
_singleLatencyMeasurement(roundTripTime) ==
    IF \/ roundTripTime > Timeout
       \/ roundTripTime <= 0
       \/ roundTripTime > 2 * MaxLatency
    THEN FailedMeasurement(roundTripTime)
    ELSE [roundTripTime |-> roundTripTime, success |-> TRUE,
          measured |-> roundTripTime]

IsSuccess(m) == m.success

RECURSIVE RSeqSum(_)
RSeqSum(values) ==
    IF values = <<>> THEN R(0)
    ELSE RAdd(Head(values), RSeqSum(Tail(values)))

_calculateMean(values) == RDiv(RSeqSum(values), R(Len(values)))

\* [...values].sort((a, b) => a - b)
SortedValues(values) ==
    LET p == CHOOSE q \in Permutations(1..Len(values)) :
                 \A i \in 1..(Len(values) - 1) :
                     RLeq(values[q[i]], values[q[i + 1]])
    IN  [i \in 1..Len(values) |-> values[p[i]]]

_calculateMedian(values) ==
    LET sorted == SortedValues(values)
        mid == Len(sorted) \div 2
    IN  IF Len(sorted) % 2 # 0
        THEN sorted[mid + 1]
        ELSE RDiv(RAdd(sorted[mid], sorted[mid + 1]), R(2))

_calculateJitter(values) ==
    IF Len(values) < 2 THEN R(0)
    ELSE _calculateMean([i \in 1..(Len(values) - 1) |->
                            RAbs(RSub(values[i + 1], values[i]))])

_assessLatencyQuality(latency) ==
    IF RLeq(latency, R(10)) THEN "excellent"
    ELSE IF RLeq(latency, R(25)) THEN "good"
    ELSE IF RLeq(latency, R(50)) THEN "fair"
    ELSE IF RLeq(latency, R(100)) THEN "poor"
    ELSE "critical"

\* statistics over all the records, the failed ones included
_calculateLatencyStatisticsOverAll(d, measurements) ==
    LET n == Len(measurements)
        roundTripTimes == [i \in 1..n |-> R(measurements[i].roundTripTime)]
        oneWayLatencies == [i \in 1..n |->
                               Rat(measurements[i].roundTripTime, 2)]
    IN  IF n = 0
        THEN [threw |-> TRUE, result |-> NULL]
        ELSE [threw |-> FALSE,
              result |->
                [deviceId |-> d,
                 latency |-> _calculateMean(oneWayLatencies),
                 roundTripTime |-> _calculateMean(roundTripTimes),
                 medianLatency |-> _calculateMedian(oneWayLatencies),
                 medianRoundTrip |-> _calculateMedian(roundTripTimes),
                 jitter |-> _calculateJitter(oneWayLatencies),
                 quality |->
                     _assessLatencyQuality(_calculateMean(oneWayLatencies)),
                 sampleCount |-> n,
                 totalAttempts |-> n]]

\* _calculateLatencyStatistics: [threw, result]; the standard deviation (a
\* square root) is left out of the result
_calculateLatencyStatistics(d, measurements) ==
    LET successfulMeasurements == SelectSeq(measurements, IsSuccess)
        n == Len(successfulMeasurements)
        roundTripTimes == [i \in 1..n |->
                              R(successfulMeasurements[i].roundTripTime)]
        oneWayLatencies == [i \in 1..n |->
                               Rat(successfulMeasurements[i].roundTripTime,
                                   2)]
    IN  IF n = 0
        THEN [threw |-> TRUE, result |-> NULL]
        ELSE [threw |-> FALSE,
              result |->
                [deviceId |-> d,
                 latency |-> _calculateMean(oneWayLatencies),
                 roundTripTime |-> _calculateMean(roundTripTimes),
                 medianLatency |-> _calculateMedian(oneWayLatencies),
                 medianRoundTrip |-> _calculateMedian(roundTripTimes),
                 jitter |-> _calculateJitter(oneWayLatencies),
                 quality |->
                     _assessLatencyQuality(_calculateMean(oneWayLatencies)),
                 sampleCount |-> n,
                 totalAttempts |-> Len(measurements)]]

\* _storeLatencyResult applied to the state lc
_storeLatencyResult(lc, d, result) ==
    LET history == IF d \in DOMAIN lc.latencyHistory
                   THEN lc.latencyHistory[d] ELSE <<>>
        pushed == Append(history, result)
    IN  [lc EXCEPT
           !.deviceLatencies = Put(@, d, result),
           !.latencyHistory =
               Put(@, d, IF Len(pushed) > MaxLatencyHistory
                         THEN Tail(pushed) ELSE pushed)]

_getCurrentAverageLatency(lc) ==
    LET ds == DOMAIN lc.deviceLatencies
    IN  IF ds = {} THEN R(0)
        ELSE RDiv(RSumOver([d \in ds |-> lc.deviceLatencies[d].latency],
                           ds),
                  R(Cardinality(ds)))

\* _updateLatencyStats applied to the state lc
_updateLatencyStats(lc, success) ==
    LET currentAvg == lc.latencyStats.averageLatency
        current == _getCurrentAverageLatency(lc)
    IN  [lc EXCEPT
           !.latencyStats.totalMeasurements = @ + 1,
           !.latencyStats.successfulMeasurements =
               IF success THEN @ + 1 ELSE @,
           !.latencyStats.failedMeasurements =
               IF success THEN @ ELSE @ + 1,
           !.latencyStats.lastMeasurementTime = now,
           !.latencyStats.averageLatency =
               IF currentAvg = R(0) THEN current
               ELSE RAdd(RMul(Rat(1, 10), current),
                         RMul(Rat(9, 10), currentAvg))]

\* the delay of the next run of monitoringLoop after a batch
NextDelay(success) ==
    IF success THEN MeasurementInterval ELSE MeasurementInterval \div 2

\* _performLatencyMeasurement of a call has returned measurements: the rest
\* of measureLatency and, for a call of the monitoring loop, of
\* monitoringLoop runs
measurementCompletes(call, measurements) ==
    LET d == call.device
        stats == _calculateLatencyStatistics(d, measurements)
        done == IF stats.threw
                THEN _updateLatencyStats(latencyCompensation, FALSE)
                ELSE _updateLatencyStats(
                         _storeLatencyResult(latencyCompensation, d,
                                             stats.result), TRUE)
    IN  /\ latencyCompensation' =
             \* finally { this.measurementStates.delete(deviceId) }
             [done EXCEPT !.measurementStates = Del(@, d)]
        /\ monitoring' =
             [monitoring EXCEPT
                !.calls = @ \ {call},
                !.timeouts =
                    IF call.inLoop
                    THEN @ (+) SetToBag({[device |-> d,
                                          due |-> now
                                                  + NextDelay(~stats.threw)]})
                    ELSE @,
                !.lastResult = [id |-> call.id, device |-> d,
                                attempts |-> call.attempts,
                                measurements |-> measurements,
                                threw |-> stats.threw,
                                result |-> stats.result]]

\* a probe of the call has ended with measurement m: the batch waits 100 ms
\* before its next probe, or is complete
probeDone(call, m) ==
    LET measurements == Append(call.measurements, m)
    IN  IF Len(measurements) < SampleSize
        THEN /\ monitoring' =
                  [monitoring EXCEPT
                     !.calls = (@ \ {call})
                               \cup {[call EXCEPT
                                        !.measurements = measurements,
                                        !.stage = "wait",
                                        !.since = now + ProbeSpacing]}]
             /\ UNCHANGED latencyCompensation
        ELSE measurementCompletes(call, measurements)

\* sendPingFunction of the probe in flight resolves
probeResolves(call) ==
    /\ call \in monitoring.calls
    /\ call.stage = "ping"
    /\ probeDone(call, _singleLatencyMeasurement(now - call.since))

\* sendPingFunction of the probe in flight rejects
probeRejects(call) ==
    /\ call \in monitoring.calls
    /\ call.stage = "ping"
    /\ probeDone(call, FailedMeasurement(NULL))

\* TimeUtils.wait(100) between two probes ends: the next probe is sent
waitElapses(call) ==
    /\ call \in monitoring.calls
    /\ call.stage = "wait"
    /\ now >= call.since
    /\ monitoring' =
         [monitoring EXCEPT
            !.calls = (@ \ {call})
                      \cup {[call EXCEPT !.stage = "ping", !.since = now,
                                         !.attempts = @ + 1]}]
    /\ UNCHANGED latencyCompensation

\* a setTimeout(monitoringLoop, ...) fires
monitorTimeoutFires(timer) ==
    /\ BagIn(timer, monitoring.timeouts)
    /\ now >= timer.due
    /\ monitoringLoop(timer.device,
                      [monitoring EXCEPT
                         !.timeouts = @ (-) SetToBag({timer})])

LatAdvance ==
    /\ \E t \in LatencyInstants : t > now /\ now' = t
    /\ UNCHANGED AllButNow

LatMeasure ==
    \E d \in Devices :
        measureLatency(d, FALSE, monitoring) /\ UNCHANGED <<now, LatFrame>>

LatStart ==
    \E d \in Devices : startLatencyMonitoring(d) /\ UNCHANGED <<now, LatFrame>>

LatStop ==
    \E d \in Devices : stopLatencyMonitoring(d) /\ UNCHANGED <<now, LatFrame>>

LatProbeResolves ==
    \E call \in monitoring.calls :
        probeResolves(call) /\ UNCHANGED <<now, LatFrame>>

LatProbeRejects ==
    \E call \in monitoring.calls :
        probeRejects(call) /\ UNCHANGED <<now, LatFrame>>

LatWaitElapses ==
    \E call \in monitoring.calls :
        waitElapses(call) /\ UNCHANGED <<now, LatFrame>>

LatTimeoutFires ==
    \E timer \in BagToSet(monitoring.timeouts) :
        monitorTimeoutFires(timer) /\ UNCHANGED <<now, LatFrame>>

NextLatency ==
    \/ LatAdvance
    \/ LatMeasure
    \/ LatStart
    \/ LatStop
    \/ LatProbeResolves
    \/ LatProbeRejects
    \/ LatWaitElapses
    \/ LatTimeoutFires

\* The operations addressed to one device, over two devices.  The
\* components are separate objects without a common field, so a behaviour
\* exercises one of them: the buffers, the clocks with their corrector, or
\* the latency batches.
BuffersAlone == InitDevice /\ InitDrift /\ InitLatency

ClocksAlone == InitBuffer /\ InitLatency

LatencyAlone == InitBuffer /\ InitDevice /\ InitDrift

PerMeasure ==
    \E d \in Devices : performSyncMeasurement(d, now) /\ UNCHANGED DevFrame

PerUpdateOffset ==
    \E d \in Devices, mt \in SyncTimes, skew \in DriftSkews :
        updateOffset(d, mt, mt + skew, 0) /\ UNCHANGED <<DrfFrame, driftVars>>

PerPingResolves ==
    \E m \in pending, skew \in PingSkews :
        pingResolves(m, m.masterTime + skew) /\ UNCHANGED DevFrame

PerBuffer == BuffersAlone /\ NextBuffer

PerClock ==
    /\ ClocksAlone
    /\ \/ CorNewClock
       \/ PerUpdateOffset
       \/ PerMeasure
       \/ PerPingResolves
       \/ DevPingRejects
       \/ CorAddDevice
       \/ CorForceDeviceCorrection

PerLatency ==
    /\ LatencyAlone
    /\ \/ monitoring.calls # {} /\ LatAdvance
       \/ LatMeasure
       \/ LatProbeResolves
       \/ LatProbeRejects
       \/ LatWaitElapses

NextPerDevice ==
    \/ PerBuffer
    \/ PerClock
    \/ PerLatency

----------------------------------------------------------------------------
(* Specifications *)

Init ==
    /\ now = 1
    /\ InitBuffer
    /\ InitClock
    /\ InitDevice
    /\ InitDrift
    /\ InitSystem
    /\ InitLatency
    /\ series = NoSeries
    /\ pauses = NoPauses

SpecBuffer == Init /\ [][NextBuffer]_vars

SpecClock == Init /\ [][NextClock]_vars

SpecDevice == Init /\ [][NextDevice]_vars

SpecDrift == Init /\ [][NextDrift]_vars

SpecCorrection == Init /\ [][NextCorrection]_vars

SpecConverge == Init /\ [][NextConverge]_vars

SpecReading == Init /\ [][NextReading]_vars

SpecPlayback == Init /\ [][NextPlayback]_vars

SpecPerDevice == Init /\ [][NextPerDevice]_vars

SpecAdmission == Init /\ [][NextAdmission]_vars

SpecSystem == Init /\ [][NextSystem]_vars

SpecLatency == Init /\ [][NextLatency]_vars

----------------------------------------------------------------------------
(* C1: every registered buffer keeps both cursors inside the buffer:       *)
(* 0 <= writePos < capacity and 0 <= readPos < capacity.                   *)
CursorsInRange ==
    \A d \in DOMAIN bufferManager.deviceBuffers :
        /\ 0 <= WritePos(d) /\ WritePos(d) < Capacity(d)
        /\ 0 <= ReadPos(d) /\ ReadPos(d) < Capacity(d)

(* C2: between pause() of a running clock and the next resume(), every      *)
(* getCurrentTime() returns the value it had at the instant of pause():    *)
(* no step that ends in a paused running clock changes the reading.        *)
PausedTimeFrozen ==
    [][(masterClock.isRunning /\ masterClock'.isRunning
        /\ masterClock'.paused)
       => getCurrentTime' = getCurrentTime]_vars

(* C6: after stop() no tick is processed and no subscriber is called       *)
(* while the clock stays stopped, no callback scheduled before the stop    *)
(* is ever invoked afterwards, and stop() resets startTime.                *)
StopSilencesClock ==
    [][/\ \A h \in preStop : invoked'[h] = invoked[h]
       /\ (~masterClock.isRunning /\ ~masterClock'.isRunning)
            => /\ masterClock'.tickCount = masterClock.tickCount
               /\ \A id \in DOMAIN masterClock.subscribers
                            \cap DOMAIN masterClock'.subscribers :
                     masterClock'.subscribers[id].calls
                         <= masterClock.subscribers[id].calls
       /\ (masterClock.isRunning /\ ~masterClock'.isRunning)
            => masterClock'.startTime = NULL]_vars

(* C4: a synchronisation result whose masterTime lies before the clock's   *)
(* lastSyncTime is discarded (it leaves the DeviceClock as it was), so     *)
(* lastSyncTime never decreases under any interleaving of                  *)
(* performSyncMeasurement and updateOffset calls.                          *)
StaleMeasurementDiscarded ==
    [][\A d \in DOMAIN deviceClock \cap DOMAIN deviceClock' :
         (/\ lastCall'.op \in {"updateOffset", "performSyncMeasurement"}
          /\ lastCall'.device = d
          /\ deviceClock[d].lastSyncTime # NULL)
         => /\ lastCall'.masterTime < deviceClock[d].lastSyncTime
                => deviceClock'[d] = deviceClock[d]
            /\ deviceClock'[d].lastSyncTime >= deviceClock[d].lastSyncTime
      ]_vars

(* C8: a measurement that completes with a round trip longer than the      *)
(* clock's measurementTimeout, or whose probe fails, reports failure, and  *)
(* a failed measurement leaves offset, driftRate, lastSyncTime, syncCount  *)
(* and recentLatencies of the DeviceClock exactly as they were.            *)
RejectedMeasurementKeepsClock ==
    [][\A m \in pending \ pending' :
         LET d == m.device
             before == deviceClock[d]
             after == deviceClock'[d]
         IN  /\ lastCall'.op = "performSyncMeasurement"
             /\ (now - m.pingStartTime > before.measurementTimeout)
                    => ~lastCall'.success
             /\ ~lastCall'.success
                    => /\ after.offset = before.offset
                       /\ after.driftRate = before.driftRate
                       /\ after.lastSyncTime = before.lastSyncTime
                       /\ after.syncCount = before.syncCount
                       /\ after.recentLatencies = before.recentLatencies
      ]_vars

(* a measurement was rejected for its round trip on a clock that already   *)
(* holds an accepted synchronisation                                       *)
RejectedAfterSync ==
    /\ lastCall.op = "performSyncMeasurement"
    /\ ~lastCall.success
    /\ HasClock(lastCall.device)
    /\ lastCall.roundTripTime > deviceClock[lastCall.device].measurementTimeout
    /\ deviceClock[lastCall.device].syncCount >= 1
    /\ deviceClock[lastCall.device].offset # R(0)

\* the offset an accepted result (masterTime, deviceTime, roundTripTime)
\* leads to: 10 * new = (deviceTime - masterTime - roundTripTime / 2) + 9 * old
IsSmoothedUpdate(call, old, new) ==
    /\ call.op \in {"updateOffset", "performSyncMeasurement"}
    /\ call.success
    /\ RMul(R(10), new) =
         RAdd(RSub(R(call.deviceTime - call.masterTime),
                   Rat(call.roundTripTime, 2)),
              RMul(R(9), old))

(* C10: the offset of a DeviceClock changes only through the smoothed      *)
(* update of an accepted result; reads, setConfig, reset and rejected      *)
(* measurements never change it.                                           *)
OffsetOnlySmoothed ==
    [][\A d \in DOMAIN deviceClock \cap DOMAIN deviceClock' :
         deviceClock'[d].offset # deviceClock[d].offset
         => /\ lastCall'.device = d
            /\ IsSmoothedUpdate(lastCall', deviceClock[d].offset,
                                deviceClock'[d].offset)
      ]_vars

(* C10, amended: the offset of a DeviceClock changes only through the      *)
(* smoothed update of an accepted result, or through reset(), which sets   *)
(* it to 0; reads, setConfig and rejected measurements never change it.    *)
OffsetSmoothedOrReset ==
    [][\A d \in DOMAIN deviceClock \cap DOMAIN deviceClock' :
         deviceClock'[d].offset # deviceClock[d].offset
         => /\ lastCall'.device = d
            /\ \/ IsSmoothedUpdate(lastCall', deviceClock[d].offset,
                                   deviceClock'[d].offset)
               \/ lastCall'.op = "reset" /\ deviceClock'[d].offset = R(0)
      ]_vars

(* a second accepted result has moved a non-zero offset *)
OffsetSmoothedTwice ==
    \E d \in DOMAIN deviceClock :
        /\ lastCall.device = d
        /\ lastCall.op \in {"updateOffset", "performSyncMeasurement"}
        /\ lastCall.success
        /\ deviceClock[d].syncCount = 2
        /\ deviceClock[d].offset # R(0)
        /\ deviceClock[d].offset #
             RSub(R(lastCall.deviceTime - lastCall.masterTime),
                  Rat(lastCall.roundTripTime, 2))

(* C3: every adjustment reported by a correction, and every device's      *)
(* pendingAdjustment and lastAdjustment, has absolute value at most the    *)
(* currently configured maxCorrection.                                     *)
AdjustmentsWithinMaxCorrection ==
    [][/\ \A d \in DOMAIN driftCorrection'.correctionState :
            LET state == driftCorrection'.correctionState[d]
            IN  /\ RLeq(RAbs(state.pendingAdjustment),
                        driftCorrection'.maxCorrection)
                /\ RLeq(RAbs(state.lastAdjustment),
                        driftCorrection'.maxCorrection)
       /\ lastCall' # lastCall
            => \A d \in DOMAIN lastCall'.corrections :
                  RLeq(RAbs(lastCall'.corrections[d].adjustment),
                       driftCorrection'.maxCorrection)
      ]_vars

(* C9: a correction pass that records an applied correction for a device   *)
(* whose |drift| exceeds driftThreshold takes effect on the device's       *)
(* timing: it adjusts the DeviceClock offset, and the device's |drift| at  *)
(* the master time of the pass gets smaller (so that repeated passes bring *)
(* it to at most driftThreshold).                                          *)
CorrectionTakesEffect ==
    [][(/\ lastCall' # lastCall
        /\ lastCall'.op \in {"performCorrection", "correctionLoop"})
       => \A d \in DOMAIN lastCall'.corrections :
             RLess(driftCorrection.driftThreshold,
                   RAbs(lastCall'.corrections[d].drift))
             => /\ deviceClock'[d].offset # deviceClock[d].offset
                /\ RLess(RAbs(RSub(getSynchronizedTime(
                                       deviceClock'[d], lastCall'.masterTime),
                                   R(lastCall'.masterTime))),
                         RAbs(lastCall'.corrections[d].drift))
      ]_vars

(* C5: once the master clock's stop() has returned, and for as long as    *)
(* the clock stays stopped, the correction loop performs no correction     *)
(* pass and the sync loop processes no device plan.                        *)
ClockStopHaltsLoops ==
    [][(/\ ~masterClock.isRunning
        /\ ~masterClock'.isRunning
        /\ lastCall' # lastCall)
       => lastCall'.op \notin {"correctionLoop", "syncLoop"}]_vars

(* C7: whenever the coordinator has finished handling the device events,   *)
(* every device of its active set has a DeviceClock, a correction state    *)
(* and a registered ring buffer, and every other device has no             *)
(* DeviceClock, no correction state, no ring buffer and no entry (active   *)
(* device, plan, buffer queue) in the AudioSyncEngine.                     *)
CoordinatorMirrorsDevices ==
    coordinator.setups = {}
    => \A d \in Devices :
          IF d \in coordinator.activeDevices
          THEN /\ HasClock(d)
               /\ d \in DOMAIN driftCorrection.correctionState
               /\ HasBuffer(d)
          ELSE /\ ~HasClock(d)
               /\ d \notin DOMAIN driftCorrection.correctionState
               /\ ~HasBuffer(d)
               /\ d \notin audioSyncEngine.activeDevices
               /\ d \notin DOMAIN audioSyncEngine.syncPlans
               /\ d \notin audioSyncEngine.bufferQueues


(* the step is a call of the buffer operation op for device d              *)
IsStep(op, d) == readResult'.op = op /\ readResult'.device = d

(* A buffer of device d in the state a single write of the samples 1..n at  *)
(* timestamp t leaves a freshly registered buffer in (zero drift, read      *)
(* cursor at 0).                                                            *)
FreshlyWritten(d, n, t) ==
    /\ HasBuffer(d)
    /\ bufferManager.deviceBuffers[d].buffer =
         [i \in 1..BufferSize |-> IF i <= n THEN i ELSE 0]
    /\ bufferManager.deviceBuffers[d].totalSamples = n
    /\ bufferManager.deviceBuffers[d].lastWriteTime = t
    /\ WritePos(d) = n % BufferSize
    /\ ReadPos(d) = 0
    /\ BufferDrift(d) = 0

(* C11: on a fresh buffer with zero drift, for every N with                 *)
(* 1 <= N <= capacity, writing N samples at timestamp t and then reading N  *)
(* samples at timestamp t returns exactly the N written values in order.    *)
RoundTripReturnsWritten ==
    [][\A d \in Devices, n \in 1..BufferSize, t \in 0..MaxTime :
          (IsStep("read", d) /\ FreshlyWritten(d, n, t)
           /\ readSynchronizedData(d, t, n))
          => (~readResult'.threw
              /\ readResult'.data = [i \in 1..n |-> i])]_vars

(* C11, for N below the capacity: on a fresh buffer with zero drift, for    *)
(* every N with 1 <= N < capacity, writing N samples at timestamp t and     *)
(* then reading N samples at timestamp t returns exactly the N written      *)
(* values in order, and moves the read cursor to N.                         *)
RoundTripBelowCapacity ==
    [][\A d \in Devices, n \in 1..(BufferSize - 1), t \in 0..MaxTime :
          (IsStep("read", d) /\ FreshlyWritten(d, n, t)
           /\ readSynchronizedData(d, t, n))
          => (/\ ~readResult'.threw
              /\ readResult'.data = [i \in 1..n |-> i]
              /\ ReadPos(d)' = n)]_vars

(* a read has returned the two samples a single write put into a fresh      *)
(* buffer                                                                    *)
RoundTripDone ==
    \E d \in DOMAIN bufferManager.deviceBuffers :
        /\ readResult.op = "read" /\ readResult.device = d
        /\ ~readResult.threw
        /\ readResult.data = <<1, 2>>
        /\ bufferManager.deviceBuffers[d].totalSamples = 2
        /\ bufferManager.deviceBuffers[d].buffer = <<1, 2, 0>>
        /\ ReadPos(d) = 2 /\ WritePos(d) = 2 /\ BufferDrift(d) = 0

(* the sample slot i (1-based) holds after the samples 1..total have been   *)
(* written in order into an empty buffer, later samples over earlier ones   *)
LatestInSlot(i, total) ==
    IF total < i THEN 0 ELSE i + BufferSize * ((total - i) \div BufferSize)

(* A buffer of device d in the state writes of the samples 1..total, the    *)
(* last at timestamp t, leave a freshly registered buffer in.               *)
WrittenInTotal(d, total, t) ==
    /\ HasBuffer(d)
    /\ bufferManager.deviceBuffers[d].buffer =
         [i \in 1..BufferSize |-> LatestInSlot(i, total)]
    /\ bufferManager.deviceBuffers[d].totalSamples = total
    /\ bufferManager.deviceBuffers[d].lastWriteTime = t
    /\ WritePos(d) = total % BufferSize
    /\ ReadPos(d) = 0
    /\ BufferDrift(d) = 0

(* C12: on a fresh buffer with zero drift, for every k with                 *)
(* 1 <= k <= capacity, writing capacity + k samples in total (in one write  *)
(* or several) and then reading k samples at the last write's timestamp     *)
(* returns the last k written values in order.                              *)
WrapReturnsLastWritten ==
    [][\A d \in Devices, k \in 1..BufferSize, t \in 0..MaxTime :
          (IsStep("read", d) /\ WrittenInTotal(d, BufferSize + k, t)
           /\ readSynchronizedData(d, t, k))
          => (~readResult'.threw
              /\ readResult'.data = [i \in 1..k |-> BufferSize + i])]_vars

(* C12, for k below the capacity: the same for every k with                 *)
(* 1 <= k < capacity.                                                       *)
WrapBelowCapacity ==
    [][\A d \in Devices, k \in 1..(BufferSize - 1), t \in 0..MaxTime :
          (IsStep("read", d) /\ WrittenInTotal(d, BufferSize + k, t)
           /\ readSynchronizedData(d, t, k))
          => (~readResult'.threw
              /\ readResult'.data = [i \in 1..k |-> BufferSize + i])]_vars

(* after two writes of capacity + 2 samples in total, a read has returned   *)
(* the last two                                                             *)
WrapReadDone ==
    \E d \in DOMAIN bufferManager.deviceBuffers :
        /\ readResult.op = "read" /\ readResult.device = d
        /\ ~readResult.threw
        /\ readResult.data = <<BufferSize + 1, BufferSize + 2>>
        /\ bufferManager.deviceBuffers[d].totalSamples = BufferSize + 2
        /\ bufferManager.bufferStats.totalWriteOperations = 2
        /\ DOMAIN bufferManager.deviceBuffers = {d}

(* the indices i of 0..n-1 with (w + i) mod capacity = slot j               *)
Covering(w, n, j) == {i \in 0..(n - 1) : (w + i) % BufferSize = j}

(* what slot j holds after samples (a sequence) is written at cursor w over *)
(* the contents old: the last sample that falls on it, else what it held    *)
SlotAfterWrite(old, samples, w, j) ==
    LET is == Covering(w, Len(samples), j)
    IN  IF is = {} THEN Slot(old, j)
        ELSE samples[1 + CHOOSE i \in is : \A k \in is : k <= i]

(* C13: every write of n >= 0 samples at write cursor w into a buffer of    *)
(* capacity C completes without throwing; written sample i ends in slot     *)
(* (w + i) mod C, later samples over earlier ones when the write laps the   *)
(* buffer; slots the write does not cover keep their contents; the new      *)
(* write cursor is (w + n) mod C and the read cursor is unchanged.          *)
WriteCompletesInPlace ==
    [][\A d \in Devices, n \in 0..MaxWrite, t \in 0..MaxTime :
          (IsStep("write", d) /\ HasBuffer(d)
           /\ writeAudioData(d, NextSamples(d, n), t))
          => (/\ ~readResult'.threw
              /\ \A j \in 0..(BufferSize - 1) :
                    Slot(bufferManager'.deviceBuffers[d].buffer, j)
                    = SlotAfterWrite(bufferManager.deviceBuffers[d].buffer,
                                     NextSamples(d, n), WritePos(d), j)
              /\ WritePos(d)' = (WritePos(d) + n) % BufferSize
              /\ ReadPos(d)' = ReadPos(d))]_vars

(* C14: in every reachable buffer state the reported availableSamples is    *)
(* (writePos - readPos + capacity) mod capacity, the wrapped case           *)
(* writePos < readPos included, and never exceeds the capacity.             *)
AvailableIsCursorDistance ==
    \A d \in DOMAIN bufferManager.deviceBuffers :
        /\ _calculateAvailableSamples(d)
           = (WritePos(d) - ReadPos(d) + Capacity(d)) % Capacity(d)
        /\ _calculateAvailableSamples(d) <= Capacity(d)

(* C15: whenever a write overwrites samples that were written and not yet   *)
(* read (the unread count before the write plus the number of samples       *)
(* written exceeds the capacity), the write completes without throwing      *)
(* and a bufferOverflow signal is emitted for it.                           *)
OverwriteSignalsOverflow ==
    [][\A d \in Devices, n \in 0..MaxWrite, t \in 0..MaxTime :
          (/\ IsStep("write", d) /\ HasBuffer(d)
           /\ _calculateAvailableSamples(d) + n > Capacity(d)
           /\ writeAudioData(d, NextSamples(d, n), t))
          => (~readResult'.threw /\ readResult'.overflow)]_vars

(* the position a read of device d at timestamp t would start at with zero *)
(* drift                                                                    *)
ZeroDriftPosition(d, t) ==
    JsMod(ReadPos(d) + _calculateSamplesToSkip(d, t), Capacity(d))

(* position p is k slots ahead of position q on a ring of c slots           *)
AheadBy(p, q, k, c) == (p - q - k) % c = 0

(* one tenth of the drift, rounded to the nearest whole sample, halves up   *)
WholeSamples(drift) ==
    CHOOSE a \in -(MaxDrift + 1)..(MaxDrift + 1) :
        10 * a - 5 <= drift /\ drift < 10 * a + 5

(* C16: applyDriftCorrection(amount) adds amount to the accumulated drift   *)
(* of the device, and for every non-zero accumulated drift the next read    *)
(* starts off the zero-drift position: some slots ahead of it when the      *)
(* drift is positive, some slots behind it when the drift is negative.      *)
EveryDriftSteersRead ==
    [][\A d \in Devices :
          /\ \A a \in DriftAmounts :
                (IsStep("drift", d) /\ HasBuffer(d)
                 /\ applyDriftCorrection(d, a))
                => BufferDrift(d)' = BufferDrift(d) + a
          /\ \A t \in 0..MaxTime, c \in 0..BufferSize :
                (IsStep("read", d) /\ HasBuffer(d) /\ ~readResult'.threw
                 /\ readSynchronizedData(d, t, c))
                => /\ BufferDrift(d) > 0 =>
                        \E k \in 1..(Capacity(d) - 1) :
                            AheadBy(readResult'.readPosition,
                                    ZeroDriftPosition(d, t), k, Capacity(d))
                   /\ BufferDrift(d) < 0 =>
                        \E k \in 1..(Capacity(d) - 1) :
                            AheadBy(readResult'.readPosition,
                                    ZeroDriftPosition(d, t), -k, Capacity(d))
      ]_vars

(* C16, with the smoothing: applyDriftCorrection(amount) adds amount to the *)
(* accumulated drift, and the next read starts round(drift / 10) slots      *)
(* ahead of the zero-drift position (behind it when that is negative, on    *)
(* it when it is 0).                                                        *)
SmoothedDriftSteersRead ==
    [][\A d \in Devices :
          /\ \A a \in DriftAmounts :
                (IsStep("drift", d) /\ HasBuffer(d)
                 /\ applyDriftCorrection(d, a))
                => BufferDrift(d)' = BufferDrift(d) + a
          /\ \A t \in 0..MaxTime, c \in 0..BufferSize :
                (IsStep("read", d) /\ HasBuffer(d) /\ ~readResult'.threw
                 /\ readSynchronizedData(d, t, c))
                => /\ AheadBy(readResult'.readPosition,
                              ZeroDriftPosition(d, t),
                              WholeSamples(BufferDrift(d)), Capacity(d))
                   /\ WholeSamples(BufferDrift(d)) = 0
                      => readResult'.readPosition = ZeroDriftPosition(d, t)
      ]_vars

(* a read of a buffer whose accumulated drift is 10 has started one slot    *)
(* ahead of the read cursor                                                 *)
SteeredReadDone ==
    \E d \in DOMAIN bufferManager.deviceBuffers :
        /\ readResult.op = "read" /\ readResult.device = d
        /\ ~readResult.threw
        /\ BufferDrift(d) = 10
        /\ bufferManager.bufferStats.totalReadOperations = 1
        /\ bufferManager.bufferStats.totalDriftCorrections = 1
        /\ readResult.readPosition = 1

(* C17: every buffer operation (write, read, applyDriftCorrection, clear)   *)
(* requested for a device that has no registered buffer fails with an       *)
(* error, instead of returning, and changes no buffer state or statistics.  *)
UnregisteredDeviceFails ==
    [][\A d \in Devices :
          (/\ ~HasBuffer(d)
           /\ readResult'.device = d
           /\ readResult'.op \in {"write", "read", "drift", "clear"}
           /\ \/ \E n \in 0..MaxWrite, t \in 0..MaxTime :
                    writeAudioData(d, NextSamples(d, n), t)
              \/ \E t \in 0..MaxTime, c \in 0..BufferSize :
                    readSynchronizedData(d, t, c)
              \/ \E a \in DriftAmounts : applyDriftCorrection(d, a)
              \/ clearDeviceBuffer(d))
          => (readResult'.threw /\ bufferManager' = bufferManager)]_vars

(* the step keeps the plan object of device d: d has a plan before and     *)
(* after it, and the step is neither a createSyncPlan (one per session)     *)
(* nor an addDevice of a device the engine does not hold                    *)
SamePlan(d) ==
    /\ d \in DOMAIN audioSyncEngine.syncPlans
    /\ d \in DOMAIN audioSyncEngine'.syncPlans
    /\ d \in audioSyncEngine.activeDevices
    /\ coordinator'.activeSyncSessions = coordinator.activeSyncSessions

(* C18: each device plan moves only forward through Pending -> Started ->   *)
(* Completed: within one plan started and completed never go from true      *)
(* back to false, completed implies started in every state, and no plan is  *)
(* completed without its startTime set.                                     *)
PlanMovesForward ==
    /\ [](\A d \in DOMAIN audioSyncEngine.syncPlans :
            LET plan == audioSyncEngine.syncPlans[d]
            IN  /\ plan.completed => plan.started
                /\ plan.completed => plan.startTime # NULL
                /\ plan.started => plan.startTime # NULL)
    /\ [][\A d \in ClockDevices :
            SamePlan(d) =>
              /\ audioSyncEngine.syncPlans[d].started
                 => audioSyncEngine'.syncPlans[d].started
              /\ audioSyncEngine.syncPlans[d].completed
                 => audioSyncEngine'.syncPlans[d].completed
              /\ audioSyncEngine.syncPlans[d].started
                 => audioSyncEngine'.syncPlans[d].startTime
                    = audioSyncEngine.syncPlans[d].startTime]_vars

(* a plan that was started at one instant has been completed at a later one *)
PlanCompleted ==
    \E d \in DOMAIN audioSyncEngine.syncPlans :
        LET plan == audioSyncEngine.syncPlans[d]
        IN  /\ plan.started /\ plan.completed
            /\ plan.startTime # NULL
            /\ now >= plan.startTime + plan.audioDuration

(* C19: a plan is created with targetStartTime = masterStartTime + the      *)
(* device's initial delay, masterStartTime being the master clock's         *)
(* getSyncTime() at creation, and it leaves Pending (started becomes true)  *)
(* only at an instant at which the master clock's getCurrentTime() has      *)
(* reached that targetStartTime.                                            *)
PlanStartsAtTarget ==
    [][\A d \in ClockDevices :
          /\ (/\ coordinator'.activeSyncSessions
                 # coordinator.activeSyncSessions
              /\ d \in coordinator.activeDevices)
             => \E initialDelay \in InitialDelays :
                   audioSyncEngine'.syncPlans[d].targetStartTime
                   = getSyncTime + initialDelay
          /\ (/\ SamePlan(d)
              /\ ~audioSyncEngine.syncPlans[d].started
              /\ audioSyncEngine'.syncPlans[d].started)
             => getCurrentTime'
                >= audioSyncEngine.syncPlans[d].targetStartTime]_vars

(* the monitoring loop of device d is alive: one of its batches is in      *)
(* flight or its next run is scheduled                                      *)
LoopAlive(d) ==
    \/ \E call \in monitoring.calls : call.device = d /\ call.inLoop
    \/ \E timer \in BagToSet(monitoring.timeouts) : timer.device = d

(* C20: after startLatencyMonitoring(device) and until                      *)
(* stopLatencyMonitoring(device), measurement batches for the device keep   *)
(* being run: at every instant in between a batch of the loop is in flight  *)
(* or the next one is scheduled, measurementInterval after a batch that     *)
(* succeeded and measurementInterval / 2 after a batch that failed.         *)
MonitoringKeepsRunning ==
    /\ [](\A d \in monitoring.active : LoopAlive(d))
    /\ [][\A call \in monitoring.calls :
            (call.inLoop /\ call \notin monitoring'.calls)
            => LET success ==
                       latencyCompensation'.latencyStats.successfulMeasurements
                       > latencyCompensation.latencyStats.successfulMeasurements
               IN  BagIn([device |-> call.device,
                          due |-> now + (IF success
                                         THEN MeasurementInterval
                                         ELSE MeasurementInterval \div 2)],
                         monitoring'.timeouts)]_vars

(* the measureLatency calls of device d that have not completed             *)
CallsOf(d) == {call \in monitoring.calls : call.device = d}

(* C21: for any one device at most one measurement batch is in flight at a  *)
(* time (a measureLatency call issued while an earlier one for the device   *)
(* has not completed is serialized behind it or rejected), and the          *)
(* measurement state of the device is the one of the batch in flight.       *)
OneBatchPerDevice ==
    \A d \in Devices :
        /\ Cardinality(CallsOf(d)) <= 1
        /\ \A call \in CallsOf(d) :
              d \in DOMAIN latencyCompensation.measurementStates
              => latencyCompensation.measurementStates[d] = call.id

(* the probe with record m passed validation: 0 < RTT <= timeout and        *)
(* RTT / 2 <= maxLatency                                                    *)
Passed(m) ==
    /\ m.measured # NULL
    /\ 0 < m.measured /\ m.measured <= Timeout
    /\ m.measured <= 2 * MaxLatency

RECURSIVE SumOfPassed(_)
SumOfPassed(measurements) ==
    IF measurements = <<>> THEN 0
    ELSE (IF Passed(Head(measurements)) THEN Head(measurements).measured
          ELSE 0) + SumOfPassed(Tail(measurements))

(* C22: a measurement batch issues exactly sampleSize probes, a failed or   *)
(* timed-out probe cancelling only itself; the result's totalAttempts is    *)
(* sampleSize, its sampleCount is the number of probes that passed          *)
(* validation, and the statistics are computed over those probes only (the  *)
(* mean round trip is their sum over their number, the latency half of it). *)
BatchCountsPassedProbes ==
    LET last == monitoring.lastResult
        passed == {i \in 1..Len(last.measurements) :
                      Passed(last.measurements[i])}
    IN  last.id # 0 =>
          /\ last.attempts = SampleSize
          /\ Len(last.measurements) = SampleSize
          /\ ~last.threw =>
                /\ last.result.totalAttempts = SampleSize
                /\ last.result.sampleCount = Cardinality(passed)
                /\ RMul(last.result.roundTripTime, R(Cardinality(passed)))
                   = R(SumOfPassed(last.measurements))
                /\ RMul(last.result.latency, R(2))
                   = last.result.roundTripTime

(* a batch has returned a result over one probe, its other probe having     *)
(* failed the latency validation                                            *)
BatchWithFailedProbe ==
    LET last == monitoring.lastResult
    IN  /\ last.id # 0 /\ ~last.threw
        /\ last.result.sampleCount = 1
        /\ last.result.totalAttempts = SampleSize
        /\ \E i \in 1..Len(last.measurements) :
              last.measurements[i].measured > 2 * MaxLatency

(* the step completes the measureLatency call                               *)
Completes(call) ==
    /\ call \in monitoring.calls
    /\ monitoring'.lastResult.id = call.id
    /\ monitoring.lastResult.id # call.id

(* C23: when no probe of a batch succeeds, measureLatency fails with an     *)
(* error surfaced to the caller, the stored latency records and the         *)
(* latency history are as before the batch, the failed-measurement counter  *)
(* grows by one and the in-progress measurement state of the device is      *)
(* cleared.                                                                 *)
FailedBatchKeepsRecords ==
    [][\A call \in monitoring.calls :
          (/\ Completes(call)
           /\ \A i \in 1..Len(monitoring'.lastResult.measurements) :
                 ~Passed(monitoring'.lastResult.measurements[i]))
          => /\ monitoring'.lastResult.threw
             /\ latencyCompensation'.deviceLatencies
                = latencyCompensation.deviceLatencies
             /\ latencyCompensation'.latencyHistory
                = latencyCompensation.latencyHistory
             /\ latencyCompensation'.latencyStats.failedMeasurements
                = latencyCompensation.latencyStats.failedMeasurements + 1
             /\ latencyCompensation'.latencyStats.successfulMeasurements
                = latencyCompensation.latencyStats.successfulMeasurements
             /\ call.device
                \notin DOMAIN latencyCompensation'.measurementStates]_vars

(* a batch of a device that holds a latency record from an earlier batch    *)
(* has failed                                                               *)
FailedAfterStored ==
    LET last == monitoring.lastResult
    IN  /\ last.id # 0 /\ last.threw
        /\ last.device \in DOMAIN latencyCompensation.deviceLatencies
        /\ Len(latencyCompensation.latencyHistory[last.device]) = 1
        /\ latencyCompensation.latencyStats.failedMeasurements = 1
        /\ latencyCompensation.latencyStats.successfulMeasurements = 1


\* C24: an unforced performCorrection of an active corrector leaves out of
\* its corrections, and leaves the CorrectionState of, every device whose
\* |drift| is at most driftThreshold, and reports one correction (counted
\* once in the device's correctionCount) for every device beyond it
WithinTolerance(d, masterTime) ==
    RLeq(RAbs(DriftOf(d, masterTime)), driftCorrection.driftThreshold)

ThresholdGatesCorrection ==
    [][\A mt \in CorrectionTimes :
          (/\ lastCall'.op = "performCorrection"
           /\ driftCorrection.isActive
           /\ performCorrection(mt)) =>
             \A d \in driftCorrection.deviceClocks :
                IF WithinTolerance(d, mt)
                THEN /\ d \notin DOMAIN lastCall'.corrections
                     /\ driftCorrection'.correctionState[d]
                          = driftCorrection.correctionState[d]
                ELSE /\ d \in DOMAIN lastCall'.corrections
                     /\ lastCall'.corrections[d].drift = DriftOf(d, mt)
                     /\ driftCorrection'.correctionState[d].correctionCount
                          = driftCorrection.correctionState[d].correctionCount
                              + 1]_vars

\* one performCorrection has passed over a device drifting by 3/10 and
\* corrected another device drifting beyond the threshold
SmallDriftSkipped ==
    /\ lastCall.op = "performCorrection"
    /\ lastCall.success
    /\ driftCorrection.isActive
    /\ driftCorrection.correctionCount > 0
    /\ \E d, e \in driftCorrection.deviceClocks :
          /\ DriftOf(d, lastCall.masterTime) = Rat(3, 10)
          /\ d \notin DOMAIN lastCall.corrections
          /\ driftCorrection.correctionState[d].correctionCount = 0
          /\ e \in DOMAIN lastCall.corrections
          /\ driftCorrection.correctionState[e].correctionCount = 1


\* C25: updateOffset(masterTime, deviceTime, rtt) sets the offset to
\* 0.1 * (deviceTime - masterTime - rtt/2) + 0.9 * offset whatever the input
\* and the prior offset, sets lastSyncTime to masterTime, adds one to
\* syncCount, and returns
\* syncAccuracy = round(100 * max(0, 1 - |offset'| / syncTolerance))
UpdateOffsetArithmetic ==
    [][\A d \in ClockDevices, mt \in MasterTimes, skew \in Skews,
          rtt \in RoundTrips :
          (/\ lastCall'.op = "updateOffset"
           /\ lastCall'.masterTime = mt
           /\ lastCall'.deviceTime = mt + skew
           /\ lastCall'.roundTripTime = rtt
           /\ updateOffset(d, mt, mt + skew, rtt)) =>
             LET before == deviceClock[d]
                 after == deviceClock'[d]
                 candidate == RSub(R(skew), Rat(rtt, 2))
             IN  /\ after.offset = RAdd(RMul(Rat(1, 10), candidate),
                                        RMul(Rat(9, 10), before.offset))
                 /\ after.lastSyncTime = mt
                 /\ after.syncCount = before.syncCount + 1
                 /\ lastCall'.success
                 /\ lastCall'.syncAccuracy =
                      RRound(RMul(R(100),
                                  RMax(R(0),
                                       RSub(R(1),
                                            RDiv(RAbs(after.offset),
                                                 R(after.syncTolerance))))))
       ]_vars

\* from offset 0 with tolerance 1, a reading 3 ahead with round trip 4 has
\* given offset 1/10 and syncAccuracy 90
FirstUpdateGivesNinety ==
    /\ lastCall.op = "updateOffset"
    /\ lastCall.deviceTime - lastCall.masterTime = 3
    /\ lastCall.roundTripTime = 4
    /\ lastCall.syncAccuracy = 90
    /\ deviceClock[lastCall.device].syncCount = 1
    /\ deviceClock[lastCall.device].syncTolerance = 1
    /\ deviceClock[lastCall.device].offset = Rat(1, 10)
    /\ deviceClock[lastCall.device].lastSyncTime = lastCall.masterTime


\* C26: updateOffset calls that repeat one candidate X move the offset
\* monotonically toward X and never past it, each call leaves 9/10 of the
\* distance to X, so that after k calls the distance is (9/10)^k of the
\* initial one and falls below any given fraction of it (below one half
\* after HalvingCalls calls)
RECURSIVE RPow(_, _)
RPow(a, k) == IF k = 0 THEN R(1) ELSE RMul(a, RPow(a, k - 1))

HalvingCalls == 7

OffsetConvergesToCandidate ==
    [][\A d \in ClockDevices :
          (series' # series /\ HasClock(d)) =>
             LET X == series'.candidate
                 k == series'.calls
                 initial == RAbs(RSub(series'.first, X))
                 before == deviceClock[d].offset
                 after == deviceClock'[d].offset
             IN  /\ RSub(after, X) = RMul(Rat(9, 10), RSub(before, X))
                 /\ RLeq(before, X) => RLeq(before, after) /\ RLeq(after, X)
                 /\ RLeq(X, before) => RLeq(X, after) /\ RLeq(after, before)
                 /\ RAbs(RSub(after, X)) = RMul(RPow(Rat(9, 10), k), initial)
                 /\ (k >= HalvingCalls /\ initial # R(0)) =>
                       RLess(RMul(R(2), RAbs(RSub(after, X))), initial)
       ]_vars

\* seven calls with the same candidate have brought the offset, not yet
\* equal to the candidate, within half of the initial distance
SevenCallsHalveDistance ==
    /\ series.calls = HalvingCalls
    /\ series.first # series.candidate
    /\ \E d \in DOMAIN deviceClock :
          /\ deviceClock[d].syncCount >= HalvingCalls
          /\ deviceClock[d].offset # series.candidate
          /\ RLess(RMul(R(2), RAbs(RSub(deviceClock[d].offset,
                                        series.candidate))),
                   RAbs(RSub(series.first, series.candidate)))


\* C27: once a measurement has been applied, whatever master time it
\* carried, getSynchronizedTime(t) is
\* t + offset + driftRate * (t - lastSyncTime) / 1e6; before any measurement
\* it is t + offset
ReadingFollowsDrift ==
    (lastCall.op = "read" /\ HasClock(lastCall.device)) =>
        LET dc == deviceClock[lastCall.device]
            t == lastCall.masterTime
        IN  lastCall.value =
              IF dc.syncCount > 0
              THEN RAdd(RAdd(R(t), dc.offset),
                        RDiv(RMul(dc.driftRate, R(t - dc.lastSyncTime)),
                             R(1000000)))
              ELSE RAdd(R(t), dc.offset)


\* C28: whatever pause()/resume() pairs a running clock has been through, a
\* reading taken while it is not paused is the wall-clock time since the
\* start minus the total duration of the completed paused intervals
ReadingExcludesPauses ==
    (masterClock.isRunning /\ ~masterClock.paused) =>
        getCurrentTime = now - pauses.origin - pauses.completed

\* a running, resumed clock reads a positive time that leaves out a paused
\* interval of positive length
ResumedClockReads ==
    /\ masterClock.isRunning
    /\ ~masterClock.paused
    /\ pauses.completed > 0
    /\ getCurrentTime > 0
    /\ getCurrentTime < now - pauses.origin


\* C29: start() on a clock that is running changes nothing: the origin, the
\* paused flag, the accumulated paused time and tickCount stay as they are
\* and no further tick loop is begun
StartWhileRunningIsNoOp ==
    masterClock.isRunning => ~ENABLED (ClkStart /\ vars' # vars)

\* start() can be called on a running clock that has ticked and has a
\* completed paused interval behind it
RunningClockWithHistory ==
    /\ masterClock.isRunning
    /\ masterClock.tickCount > 0
    /\ masterClock.totalPausedTime > 0
    /\ TickLinks > 0
    /\ ENABLED ClkStart


\* C30: startSynchronizedPlayback of a coordinator that is not running or
\* has no active device, and synchronizePlayback of an engine that is not
\* running, have no effect: no sync plan is created or changed, no device is
\* added and no statistic moves
PlaybackNeedsRunningSystem ==
    /\ (~coordinator.isRunning \/ coordinator.activeDevices = {}) =>
          ~ENABLED (SysStartPlayback /\ vars' # vars)
    /\ ~audioSyncEngine.isRunning =>
          ~ENABLED (SysSynchronizePlayback /\ vars' # vars)

\* a stopped coordinator and engine that still hold devices and sync plans
StoppedWithPlans ==
    /\ ~coordinator.isRunning
    /\ ~audioSyncEngine.isRunning
    /\ coordinator.activeDevices # {}
    /\ DOMAIN audioSyncEngine.syncPlans # {}


\* C31: synchronizePlayback returns one result per device plan; a device
\* whose processing throws gets a failure result, every other device is
\* processed as it would be alone and gets its own result, and the batch
\* completes
BatchSurvivesDeviceFailure ==
    [][\A fault \in [Devices -> Faults] :
          (/\ lastCall'.op = "synchronizePlayback"
           /\ synchronizePlaybackWith(fault)) =>
             LET plans == audioSyncEngine.syncPlans
                 results == lastCall'.corrections
                 failed == {d \in DOMAIN plans :
                              ~SynchronizedDevice(plans[d], now,
                                                  fault[d]).success}
             IN  /\ DOMAIN results = DOMAIN plans
                 /\ \A d \in failed : ~results[d]
                 /\ \A d \in DOMAIN plans \ failed :
                       /\ results[d]
                       /\ audioSyncEngine'.syncPlans[d]
                            = _synchronizeDevicePlayback(plans[d], now)
                 /\ audioSyncEngine'.totalSyncOperations
                      = audioSyncEngine.totalSyncOperations + 1
                 /\ audioSyncEngine'.failedSyncs
                      = audioSyncEngine.failedSyncs + Cardinality(failed)
       ]_vars

\* a batch over two plans has returned a failure for the device whose
\* playback it started and a success for the other device
OneFailedOneSucceeded ==
    /\ lastCall.op = "synchronizePlayback"
    /\ \E d, e \in DOMAIN lastCall.corrections :
          /\ ~lastCall.corrections[d]
          /\ lastCall.corrections[e]
          /\ d \in DOMAIN audioSyncEngine.syncPlans
          /\ audioSyncEngine.syncPlans[d].started
          /\ audioSyncEngine.syncPlans[d].startTime = lastCall.masterTime
    /\ audioSyncEngine.failedSyncs > 0
    /\ audioSyncEngine.successfulSyncs > 0


\* C32: an operation addressed to one device (updateOffset or a measurement
\* of its DeviceClock, a forced correction, a write, read, drift correction
\* or clear of its buffer, a latency batch) leaves the DeviceClock, the
\* CorrectionState, the ring buffer with its cursors and drift, and the
\* stored latency record of every other device unchanged
Held(m, d) == IF d \in DOMAIN m THEN <<m[d]>> ELSE <<>>

StateOfDevice(d) ==
    <<Held(deviceClock, d),
      Held(driftCorrection.correctionState, d),
      Held(bufferManager.deviceBuffers, d),
      Held(bufferManager.writePositions, d),
      Held(bufferManager.readPositions, d),
      Held(bufferManager.bufferDrift, d),
      Held(latencyCompensation.deviceLatencies, d),
      Held(latencyCompensation.latencyHistory, d),
      Held(latencyCompensation.measurementStates, d)>>

DevicesIsolated ==
    [][LET touched == {d \in Devices : StateOfDevice(d)' # StateOfDevice(d)}
           moved == (monitoring'.calls \ monitoring.calls)
                      \cup (monitoring.calls \ monitoring'.calls)
       IN  /\ Cardinality(touched) <= 1
           /\ readResult' # readResult => touched \subseteq {readResult'.device}
           /\ lastCall' # lastCall => touched \subseteq {lastCall'.device}
           /\ monitoring' # monitoring =>
                 touched \subseteq {c.device : c \in moved}
      ]_vars

\* both devices have a written buffer and one of them has just been read
OneOfTwoBuffersRead ==
    /\ readResult.op = "read"
    /\ readResult.device = "d1"
    /\ HasBuffer("d1") /\ HasBuffer("d2")
    /\ bufferManager.writePositions["d1"] > 0
    /\ bufferManager.writePositions["d2"] > 0
    /\ bufferManager.readPositions["d1"] > 0
    /\ bufferManager.readPositions["d2"] = 0


\* C33: the number of devices in the Coordinator's active set (devices
\* with a DeviceClock) never exceeds the configured maxDevices
ActiveDevicesWithinMax ==
    /\ Cardinality(coordinator.activeDevices) <= maxDevices
    /\ Cardinality(DOMAIN deviceClock) <= maxDevices


\* C34: the status and metrics getters are read-only: a call of
\* AudioSyncEngine.getSyncAccuracy leaves the engine's state, its running
\* statistics included, exactly as it was
GetSyncAccuracyReadOnly ==
    [][lastCall'.op = "getSyncAccuracy" => audioSyncEngine' = audioSyncEngine]_vars


\* C35: at most one tick loop is live for a Clock: whatever sequence of
\* start, stop, pause, resume and setOptions was called, a running clock
\* has a single pending link (animation frame or timer) of the tick loop
OneTickLoop ==
    masterClock.isRunning => TickLinks <= 1


\* C36: while the engine stays running the sync loop keeps iterating, so
\* that every device plan that is Started is eventually marked Completed:
\* as long as a running engine holds a started plan that is not completed,
\* an iteration of its sync loop is pending
StartedPlanHasLoop ==
    (/\ audioSyncEngine.isRunning
     /\ \E d \in DOMAIN audioSyncEngine.syncPlans :
           /\ audioSyncEngine.syncPlans[d].started
           /\ ~audioSyncEngine.syncPlans[d].completed)
    => SyncLinks > 0


\* C37: the engine's own sync loop starts the plans that
\* startSynchronizedPlayback created: an iteration of the loop of a running
\* engine, at an instant at which the Clock's time (and the wall-clock
\* time) has passed a plan's targetStartTime, leaves that plan Started
LoopStartsDuePlans ==
    [][(/\ audioSyncEngine.isRunning
        /\ syncLoop'.raf < syncLoop.raf)
       => \A d \in DOMAIN audioSyncEngine.syncPlans :
             LET plan == audioSyncEngine.syncPlans[d]
             IN  (/\ plan.targetStartTime # NULL
                  /\ masterClock.isRunning
                  /\ getCurrentTime >= plan.targetStartTime
                  /\ now >= plan.targetStartTime)
                 => /\ d \in DOMAIN audioSyncEngine'.syncPlans
                    /\ audioSyncEngine'.syncPlans[d].started
      ]_vars


\* C38: a read never runs past the write cursor: the samples a read
\* returns, also with samples skipped or with accumulated drift, are at
\* most those between its start position and writePos
ReadStaysBehindWriteCursor ==
    [][\A d \in Devices :
          (/\ readResult'.op = "read"
           /\ readResult'.device = d
           /\ bufferManager'.bufferStats.totalReadOperations
                > bufferManager.bufferStats.totalReadOperations)
          => readResult'.samples
               <= (WritePos(d) - readResult'.readPosition) % Capacity(d)
      ]_vars


\* C39: a read(timestamp, desiredCount) starts at (readPos + samplesToSkip
\* + round(driftAdjustment)) mod capacity, returns min(desiredCount,
\* availableSamples) samples (all available ones for desiredCount 0), a run
\* crossing the buffer end as tail then head, moves readPos to (start +
\* number returned) mod capacity and leaves the contents and writePos alone
ReadContract ==
    [][\A d \in Devices, timestamp \in 0..MaxTime, count \in 0..BufferSize :
          (/\ readResult'.op = "read"
           /\ readResult'.device = d
           /\ HasBuffer(d)
           /\ readSynchronizedData(d, timestamp, count))
          => LET capacity == Capacity(d)
                 buffer == bufferManager.deviceBuffers[d].buffer
                 startPos == (ReadPos(d) + _calculateSamplesToSkip(d, timestamp)
                           + _getDriftAdjustment(d)) % capacity
                 returned == IF count > 0
                             THEN Min(count, _calculateAvailableSamples(d))
                             ELSE _calculateAvailableSamples(d)
             IN  /\ ~readResult'.threw
                 /\ readResult'.readPosition = startPos
                 /\ readResult'.samples = returned
                 /\ readResult'.data =
                      [i \in 1..returned |->
                          buffer[((startPos + i - 1) % capacity) + 1]]
                 /\ bufferManager'.readPositions[d]
                      = (startPos + returned) % capacity
                 /\ bufferManager'.deviceBuffers[d].buffer = buffer
                 /\ bufferManager'.writePositions = bufferManager.writePositions
      ]_vars


\* C40: the correction loop is gated by correctionInterval on the master
\* Clock's time: when the previous pass was made by the Coordinator's tick
\* handler, which recorded the Clock's time in lastCorrectionTime, an
\* iteration of the loop makes a pass only if at least correctionInterval
\* of Clock time has elapsed since
LoopGatedOnClockTime ==
    [][(/\ lastCall.op = "performCorrection"
        /\ lastCall.masterTime = driftCorrection.lastCorrectionTime
        /\ Truthy(driftCorrection.lastCorrectionTime)
        /\ masterClock.isRunning
        /\ lastCall' # lastCall
        /\ lastCall'.op = "correctionLoop")
       => getCurrentTime - driftCorrection.lastCorrectionTime
            >= driftCorrection.correctionInterval
      ]_vars

=============================================================================
